---- MODULE Spec2Model ----
(***************************************************************************)
(* Model of the app-host importer of azd (cli/azd/pkg/project/             *)
(* dotnet_importer.go) and of the app-host branch of InitFromApp           *)
(* (cli/azd/internal/repository/app_init.go).                              *)
(*                                                                         *)
(* A process owns one DotNetImporter with two maps, each behind its own    *)
(* mutex: cache (path -> *Manifest) and hostCheck (path -> result).        *)
(* Callers are goroutines; a call is split at the points where the code    *)
(* blocks on a mutex or on an external collaborator (manifest discovery,   *)
(* the console prompt, saving the environment, the msbuild probe).         *)
(*                                                                         *)
(* SpecMerge models InitFromApp: the steps before the generation           *)
(* (detection, the filter, the single app host check, the prompts, the     *)
(* environment), then the generation into a temporary directory and its    *)
(* merge into the project directory, and the temporary directory of        *)
(* ProjectInfrastructure.                                                  *)
(*                                                                         *)
(* SpecSynth models SynthAllInfrastructure writing into the in-memory      *)
(* file system, SpecRender the template host-containerapp.bicept, and      *)
(* SpecLive the two mutexes under a fair scheduler.                        *)
(*                                                                         *)
(* SpecGen models prjConfigFromDetect and the spinner steps of the         *)
(* detection branch of InitFromApp.  SpecConsole models one AskerConsole   *)
(* driven by one goroutine (messages, spinner, prompts, resize),           *)
(* SpecProgress the same console's spinner and previewer driven by         *)
(* several goroutines, and SpecAuth the start of the OneAuth bridge        *)
(* (cli/azd/pkg/oneauth/oneauth_windows.go).                               *)
(***************************************************************************)
EXTENDS Integers, Sequences, FiniteSets, TLC

\* ------------------------------------------------------------------ bounds
NumCallers == 2
MaxCalls == 3
MaxProcs == 2
MaxRuns == 2
MaxSynths == 2
MaxBackends == 2
MaxLiveCalls == 2
MaxDetected == 2
MaxMsgLen == 2
NumGoroutines == 2
MaxPreviewers == 2
MaxStarts == 3

Callers == 1..NumCallers

\* ------------------------------------------------------------ input space
Paths == {"p1", "p2"}

\* Service entries of azure.yaml: names are unique, two of them import the
\* same app host project.
SvcConfigs ==
    { [name |-> "app", path |-> "p1"],
      [name |-> "api", path |-> "p1"],
      [name |-> "ops", path |-> "p2"] }

Names == {s.name : s \in SvcConfigs}

\* The topology every discovery yields: resource name -> binding names.
\* "db" is a resource without bindings.
Topology ==
    [web |-> {"http", "https"}, admin |-> {"http"}, db |-> {}]

ResourceNames == DOMAIN Topology

\* `manifest.Resources[name].Bindings`: the bindings of a resource, none for
\* a name the manifest does not have.
BindingsOf(r) == IF r \in ResourceNames THEN Topology[r] ELSE {}

\* The resources the ingress selector offers: those with a binding.
Servable == {r \in ResourceNames : BindingsOf(r) # {}}

\* What the user picks in the multi-select prompt.
Selections == {{}, {"web"}}

\* ------------------------------------------------------- config documents
\* A value stored under services.<name>.config.exposedServices.
\*   absent       the key is not in the document
\*   other        a value that is not a list
\*   ifaceSlice   []interface{}: what a decoded document holds for a list
\*   stringSlice  []string: what Config.Set received from the selector
\* An element is a string (str = TRUE) or some other JSON value.
Absent == [shape |-> "absent", elems |-> {}]
NotAList == [shape |-> "other", elems |-> {}]
StrElem(n) == [str |-> TRUE, val |-> n]
NumElem == [str |-> FALSE, val |-> "42"]
IfaceSlice(es) == [shape |-> "ifaceSlice", elems |-> es]
StringSlice(ns) == [shape |-> "stringSlice", elems |-> {StrElem(n) : n \in ns}]

EmptyDoc == [n \in Names |-> Absent]

\* What the environment file may hold before the first process starts.
InitialDocs ==
    { EmptyDoc,
      [EmptyDoc EXCEPT !["app"] = NotAList],
      [EmptyDoc EXCEPT !["app"] = IfaceSlice({StrElem("admin"), NumElem, StrElem("db"),
                                        StrElem("gone")})] }

\* Saving encodes the document as JSON and a later process decodes it: a
\* []string comes back as []interface{} of strings.
Decoded(v) == IF v.shape = "stringSlice" THEN IfaceSlice(v.elems) ELSE v
Marshal(doc) == [n \in Names |-> Decoded(doc[n])]

\* ------------------------------------------------------------------ state
VARIABLES
    pc,           \* per caller: where it is in its current call
    arg,          \* per caller: the service config / path of the call
    cur,          \* per caller: id of the manifest readManifest holds
    sel,          \* per caller: the names the selector returned
    last,         \* the result a call has just returned (NoRet otherwise)
    cache,        \* DotNetImporter.cache: path -> manifest id (0: no entry)
    cacheMu,      \* holder of cacheMu (0: unlocked)
    hostCheck,    \* DotNetImporter.hostCheck: path -> hostCheckResult
    hostCheckMu,  \* holder of hostCheckMu (0: unlocked)
    manifests,    \* heap of *apphost.Manifest objects, id = index
    envLoaded,    \* lazyEnv holds a loaded *Environment
    envCfg,       \* env.Config of the loaded environment
    saved,        \* the environment's config file
    procKind,     \* "fresh", "run" (importer calls) or "init" (azd init)
    proc,         \* number of the current process
    calls,        \* calls started so far (bounds the exploration)
    discoveries,  \* ManifestFromAppHost invocations by readManifest, per path
    probes,       \* GetMsBuildProperty invocations, per path
    prompts,      \* SelectPublicServices invocations per service name
    rendered,     \* ids of the manifests handed to the synthesizer
    mpc,          \* staged merge: where the operation is
    branch,       \* staged merge: which operation is running
    tmpDir,       \* the operation's temporary directory exists
    stage,        \* files of the temporary directory: path -> bytes
    dest,         \* files of the project directory: path -> bytes
    skip,         \* skipStagingFiles, the result of promptForDuplicates
    conflicts,    \* the paths promptForDuplicates listed to the user
    copied,       \* staged paths copy.Copy has written to the project
    dupPrompts,   \* times the user was asked about duplicates
    mret,         \* result of the operation that just returned
    runs,         \* operations started so far (bounds the exploration)
    leaked,       \* temporary directories left behind with no owner
    owned,        \* temporary directories handed to an Infra (cleanupDir)
    lastRun,      \* the operation that returned last: branch, result, kept
    projectPaths, \* apphost.ProjectPaths(manifest): name -> project file
    dirEntry,     \* what d.Type() of the rendered tree's entries holds
    spc,          \* SynthAllInfrastructure: where the call is
    generatedFS,  \* the memfs tree being filled: path -> contents, mode
    todo,         \* projects the range loop has not visited yet
    order,        \* projects in the order the range loop visited them
    results,      \* what the calls so far returned
    tmplData,     \* the data host-containerapp.bicept is executed with
    bicep,        \* the rendering of the template, once it is executed
    waiting,      \* per caller: the call that is blocked in Lock()
    front,        \* InitFromApp before the generation: where it is
    detectServices, \* detect.Services: the projects the user confirmed
    gen,          \* the generation steps of InitFromApp: where they are
    config,       \* the ProjectConfig prjConfigFromDetect returned
    stops,        \* the StopSpinner calls of the generation steps
    formatter,    \* AskerConsole.formatter: its kind
    spinnerStatus,        \* c.spinner.Status()
    spinnerCurrentTitle,  \* AskerConsole.spinnerCurrentTitle
    lineTitle,    \* the title the spinner's line was last made from
    shownTitle,   \* the title of the last ShowSpinner call
    last2Byte,    \* AskerConsole.last2Byte
    interaction,  \* the prompt doInteraction is in, if any
    lastOp,       \* the console method called last
    out,          \* what that call wrote to the writer
    showProgressMu, \* holder of AskerConsole.showProgressMu (0: unlocked)
    previewer,    \* AskerConsole.previewer (0: nil)
    writer,       \* AskerConsole.writer: defaultWriter or a previewer
    stoppedLogs,  \* the previewers Stop was called on
    ppc,          \* per goroutine: the console method it is in and where
    nilCalls,     \* the methods called on a nil previewer, by caller
    logs,         \* previewers made so far (bounds the exploration)
    started,      \* oneauth: the started flag
    bridge,       \* oneauth: the bridge DLL is loaded
    running,      \* OneAuth has been started up and not shut down
    startRet,     \* what the last call of start returned
    starts,       \* calls of start returned so far (bounds the exploration)
    apc           \* per goroutine: where in start it is

\* the importer and the first half of InitFromApp
importerVars ==
    <<pc, arg, cur, sel, last, cache, cacheMu, hostCheck, hostCheckMu,
      manifests, envLoaded, envCfg, saved, procKind, proc, calls,
      discoveries, probes, prompts, rendered>>

\* the temporary directories and the project directory
mergeVars ==
    <<mpc, branch, tmpDir, stage, dest, skip, conflicts, copied, dupPrompts,
      mret, runs, leaked, owned, lastRun>>

\* one call of SynthAllInfrastructure after another on one manifest
synthVars ==
    <<projectPaths, dirEntry, spc, generatedFS, todo, order, results>>

\* one execution of the container app template
renderVars == <<tmplData, bicep>>

\* the callers blocked on a mutex
liveVars == <<waiting>>

\* InitFromApp from its call to the start of the generation
frontVars == <<front>>

\* the generation steps of InitFromApp for detected services
genVars == <<detectServices, gen, config, stops>>

\* the parts that stand apart from the importer and the merge
\* the console, one call at a time
consoleVars ==
    <<formatter, spinnerStatus, spinnerCurrentTitle, lineTitle, shownTitle,
      last2Byte, interaction, lastOp, out>>

\* the progress renderers of the console, called from several goroutines
progressVars ==
    <<showProgressMu, previewer, writer, stoppedLogs, ppc, nilCalls, logs>>

\* package oneauth
authVars == <<started, bridge, running, startRet, starts, apc>>

restVars == <<genVars, consoleVars, progressVars, authVars>>

vars ==
    <<importerVars, mergeVars, synthVars, renderVars, liveVars, frontVars,
      restVars>>

\* what each part of the model leaves alone
nonImporterVars == <<mergeVars, synthVars, renderVars, liveVars, frontVars, restVars>>
nonMergeFrontVars == <<importerVars, synthVars, renderVars, liveVars, restVars>>
nonMergeVars == <<nonMergeFrontVars, frontVars>>
nonSynthVars == <<importerVars, mergeVars, renderVars, liveVars, frontVars, restVars>>
nonRenderVars == <<importerVars, mergeVars, synthVars, liveVars, frontVars, restVars>>
nonLiveVars == <<importerVars, mergeVars, synthVars, renderVars, frontVars, restVars>>
firstVars ==
    <<importerVars, mergeVars, synthVars, renderVars, liveVars, frontVars>>
nonGenVars == <<firstVars, consoleVars, progressVars, authVars>>
nonConsoleVars == <<firstVars, genVars, progressVars, authVars>>
nonProgressVars == <<firstVars, genVars, authVars>>
nonAuthVars == <<firstVars, genVars, consoleVars, progressVars>>

NoHolder == 0
NoEntry == 0
NoArg == [name |-> "", path |-> ""]
NoRet == [kind |-> "none"]
NoCheck == [has |-> FALSE, is |-> FALSE, err |-> 0]

\* results handed to the caller
RetModel(id, s) == [kind |-> "model", id |-> id, name |-> s.name, path |-> s.path]
RetErr(op, s) == [kind |-> "err", op |-> op, name |-> s.name, path |-> s.path]
RetGenerated(id, s) == [kind |-> "generated", id |-> id, name |-> s.name, path |-> s.path]
RetBool(b, e, p) == [kind |-> "bool", is |-> b, err |-> e, path |-> p]

\* ---------------------------------------------------------------- helpers
\* Fault variant: Lock that never waits.
LockFree_Always(mu) == TRUE

\* sync.Mutex.Lock returns only when nobody holds the mutex.
LockFree(mu) == mu = NoHolder

\* Fault variant: a return that leaves the mutex locked.
Unlock_Skipped(mu) == mu

\* `defer ai.cacheMu.Unlock()`, `defer ai.hostCheckMu.Unlock()`: run at
\* every return of the function.
Unlock(mu) == NoHolder

\* `ai.cacheMu.Lock()` in readManifest
CanLockCache == LockFree(cacheMu)

\* Fault variant: CanImport locking the mutex of the manifest cache.
CanLockHostCheck_CacheMu == LockFree(cacheMu) /\ LockFree(hostCheckMu)

\* `ai.hostCheckMu.Lock()` in CanImport
CanLockHostCheck == LockFree(hostCheckMu)

\* Fault variant: a lookup that never finds the entry.
Has_Stale(c, p) == FALSE

\* Fault variant: a lookup that finds entries of p2 only, so that the
\* services sharing p1 each miss.
Has_MissOnShared(c, p) == c[p] # NoEntry /\ p = "p2"

\* `cached, has := ai.cache[path]`
Has(c, p) == c[p] # NoEntry

\* Fault variant: the manifest is returned without being stored.
CacheStore_Forget(c, p, id) == c

\* Fault variant: the entry is stored under every key.
CacheStore_AllKeys(c, p, id) == [q \in DOMAIN c |-> id]

\* `ai.cache[path] = manifest`
CacheStore(c, p, id) == [c EXCEPT ![p] = id]

\* Fault variant: a failed call leaves an entry behind.
CacheOnError_Entry(c, p) == [c EXCEPT ![p] = 1]

\* What readManifest leaves in the cache when it returns an error: nothing.
CacheOnError(c, p) == c

\* A manifest as ManifestFromAppHost returns it: no binding is external.
NewManifest(p) == [path |-> p, external |-> {}]

\* A manifest no variable refers to any more is collected. The holder of
\* cacheMu is the only one allocating, so it is the newest object.
Discard(heap, id) == SubSeq(heap, 1, id - 1)

\* Fault variant: every name is taken to have an "http" binding.
MarkExternal_AnyName(m, ns) ==
    [m EXCEPT !.external = @ \cup {<<r, "http">> : r \in ns}]

\* Fault variant: the loop body never assigns.
MarkExternal_Skip(m, ns) == m

\* Fault variant: a decision that names anything marks every binding of the
\* manifest.
MarkExternal_AllResources(m, ns) ==
    [m EXCEPT !.external =
        IF ns = {} THEN @
        ELSE @ \cup UNION {{<<r, b>> : b \in BindingsOf(r)} : r \in ResourceNames}]

\* `for _, binding := range manifest.Resources[name].Bindings { binding.External = true }`
\* for every name of ns.
MarkExternal(m, ns) ==
    [m EXCEPT !.external =
        @ \cup UNION {{<<r, b>> : b \in BindingsOf(r)} : r \in ns}]

\* Fault variant: one element that is not a string discards the whole list.
DecisionNames_Strict(v) ==
    IF v.shape = "ifaceSlice" /\ \A x \in v.elems : x.str
    THEN {e.val : e \in v.elems}
    ELSE {}

\* The names readManifest takes from a stored value: none unless the value
\* is a []interface{}, and then its string elements.
DecisionNames(v) ==
    IF v.shape = "ifaceSlice"
    THEN {e.val : e \in {x \in v.elems : x.str}}
    ELSE {}

\* `cfgValue, has := env.Config.Get(key)`
HasKey(doc, n) == doc[n].shape # "absent"

\* ------------------------------------------------------------ file trees
\* The paths of the project directory the operations know, and one file
\* ("notes.txt") that no operation generates.
FilePaths == {"azure.yaml", "next-steps.md", "infra/main.bicep", "notes.txt"}

\* The bytes of a file: what the templates render ("gen"), anything else
\* ("user"), or no file at all.
NoFile == "none"
GenBytes == "gen"
UserBytes == "user"

EmptyTree == [p \in FilePaths |-> NoFile]

\* The project directories an operation may start in.
InitialTrees ==
    { d \in [FilePaths -> {NoFile, GenBytes, UserBytes}] : d["notes.txt"] = UserBytes }

NoRun == [branch |-> "none", result |-> "none", kept |-> {}]

\* No operation on the file system is running and none has run.
MergeIdle(d) ==
    /\ mpc = "idle"
    /\ branch = "none"
    /\ tmpDir = FALSE
    /\ stage = EmptyTree
    /\ dest = d
    /\ skip = {}
    /\ conflicts = {}
    /\ copied = {}
    /\ dupPrompts = 0
    /\ mret = "none"
    /\ runs = 0
    /\ leaked = 0
    /\ owned = 0
    /\ lastRun = NoRun

\* --------------------------------- SynthAllInfrastructure: its inputs
\* The projects of the manifest (`apphost.ProjectPaths(manifest)`): project
\* name -> path of its project file. Two project files may share a
\* directory.
Projects == {"web", "admin"}

CsprojPaths ==
    { [dir |-> "svc", file |-> "Web.csproj"],
      [dir |-> "svc", file |-> "Admin.csproj"],
      [dir |-> "adm", file |-> "Admin.csproj"] }

ProjectPathMaps == UNION {[S -> CsprojPaths] : S \in SUBSET Projects}

\* fs.FileMode: the low nine bits are the permission bits (fs.ModePerm),
\* the type bits lie above them.
ModePerm == 511

\* `FileMode.Perm()`: m & ModePerm.
Perm(m) == m % (ModePerm + 1)

\* `FileMode.Type()`: m & ModeType, the bits above the permission bits.
TypeBits(m) == m - (m % (ModePerm + 1))

\* osutil.PermissionFileOwnerOnly, 0600.
PermissionFileOwnerOnly == 384

\* The files of `apphost.BicepTemplate(manifest)` with the mode the tree
\* records for each.
InfraFiles == [main |-> 420, resources |-> 384]

BicepContents(f, pp) == [kind |-> "bicep", file |-> f, projects |-> DOMAIN pp]

\* `apphost.ContainerAppManifestTemplateForProject(manifest, name)`.
ContainerAppManifest(name) == [kind |-> "containerApp", project |-> name]

\* `d.Type()` of a directory entry of the rendered tree. io/fs defines
\* Type as the type bits alone; the entries of the tree come from a file
\* system implementation outside this repository, which may hand back the
\* whole mode.
DirEntryKinds == {"typeBits", "wholeMode"}

EntryType(kind, m) == IF kind = "typeBits" THEN TypeBits(m) ELSE m

\* Paths of generatedFS.
InfraPath(f) == [dir |-> "infra", file |-> f]

\* `filepath.Join(filepath.Dir(projectRelPath), "manifests",
\* "containerApp.tmpl.yaml")`.
ManifestPath(csproj) == [dir |-> csproj.dir, file |-> "manifests/containerApp.tmpl.yaml"]

SynthPaths ==
    {InfraPath(f) : f \in DOMAIN InfraFiles}
        \cup {ManifestPath(c) : c \in CsprojPaths}

NoMemFile == [contents |-> "none", mode |-> 0]

\* `memfs.New()`.
EmptyFS == [p \in SynthPaths |-> NoMemFile]

\* No SynthAllInfrastructure call is being looked at.
SynthIdle(pp, kind) ==
    /\ projectPaths = pp
    /\ dirEntry = kind
    /\ spc = "idle"
    /\ generatedFS = EmptyFS
    /\ todo = {}
    /\ order = <<>>
    /\ results = <<>>

\* ------------------------------------ host-containerapp.bicept: its data
\* The data the template is executed with (scaffold.ServiceSpec): the
\* dependency flags, the port, and the front end / back end links, each a
\* nil pointer or a list of service references.
BackendNames == {"api", "auth"}
FrontendNames == {"web"}

SeqsUpTo(S, n) == UNION {[1..k -> S] : k \in 0..n}

NilLink == [present |-> FALSE, refs |-> <<>>]
Link(refs) == [present |-> TRUE, refs |-> refs]

TemplateData ==
    [ DbCosmosMongo : BOOLEAN, DbPostgres : BOOLEAN, DbRedis : BOOLEAN,
      Port : {0, 8080},
      Frontend : {NilLink} \cup {Link(b) : b \in SeqsUpTo(BackendNames, MaxBackends)},
      Backend : {NilLink} \cup {Link(f) : f \in SeqsUpTo(FrontendNames, MaxBackends)} ]

NotRendered == [rendered |-> FALSE]

\* No service is being rendered.
NoTemplateData ==
    [ DbCosmosMongo |-> FALSE, DbPostgres |-> FALSE, DbRedis |-> FALSE,
      Port |-> 0, Frontend |-> NilLink, Backend |-> NilLink ]

\* The template has not been executed.
RenderIdle(d) ==
    /\ tmplData = d
    /\ bicep = NotRendered

\* ----------------------------------------- callers waiting for a mutex
\* A call that has reached `Lock()` and not returned from it: which
\* function was called, with what.
NoRequest == [op |-> "none", name |-> "", path |-> ""]

\* The calls that are followed through their wait: readManifest for two
\* services with different app hosts, CanImport for one project.
Requests ==
    { [op |-> "readManifest", name |-> "app", path |-> "p1"],
      [op |-> "readManifest", name |-> "ops", path |-> "p2"],
      [op |-> "canImport", name |-> "", path |-> "p1"] }

\* Nobody waits.
NoneWaiting == waiting = [t \in Callers |-> NoRequest]

\* -------------------------------- InitFromApp up to the generation: data
\* What appdetect.Detect may find in the project directory: two app host
\* projects, a .NET project that both app hosts list in their manifest, and
\* a project no app host knows.
DetectedProjects ==
    { [path |-> "host1", appHost |-> TRUE],
      [path |-> "host2", appHost |-> TRUE],
      [path |-> "svc", appHost |-> FALSE],
      [path |-> "py", appHost |-> FALSE] }

\* `filepath.Dir(path)` for the paths of `apphost.ProjectPaths(manifest)`.
ManifestProjectDirs(hostPath) == {"svc"}

NoCall ==
    [phase |-> "idle", projects |-> {}, branch |-> "none", at |-> 0,
     done |-> {}, err |-> "none", dest0 |-> EmptyTree]

\* InitFromApp is not running.
FrontIdle == front = NoCall

\* ------------------------------------- generation for detected services
\* `filepath.Rel(root, prj.Path)` as its segments; <<>> is ".".
RelPaths == {<<>>, <<"api">>, <<"a", "api">>, <<"b", "api">>, <<"app">>}

\* `filepath.Base(root)`: the name of the project directory.
RootName == "app"

\* prj.Language of a detected project, and the keys languageMap has.
Languages == {"py", "other"}
SupportedLanguages == {"py"}

\* detect.Services: projects in distinct directories, in detection order.
DetectedServices ==
    {ps \in SeqsUpTo([path : RelPaths, language : Languages], MaxDetected) :
        \A i, j \in DOMAIN ps : ps[i].path = ps[j].path => i = j}

\* `filepath.Base(rel)`
Base(rel) == IF rel = <<>> THEN "." ELSE rel[Len(rel)]

\* Lines 397-400: the key a project is stored under.
ServiceName(rel) == IF Base(rel) = "." THEN RootName ELSE Base(rel)

NoConfig == [made |-> FALSE]

\* Lines 349-402: the loop over detect.Services, filling config.Services.
RECURSIVE ServicesOf(_, _)
ServicesOf(ps, services) ==
    IF ps = <<>> THEN services
    ELSE LET prj == Head(ps) IN
         ServicesOf(Tail(ps),
            IF prj.language \notin SupportedLanguages
            THEN services
            ELSE [n \in DOMAIN services \cup {ServiceName(prj.path)} |->
                    IF n = ServiceName(prj.path)
                    THEN [relativePath |-> prj.path, language |-> prj.language]
                    ELSE services[n]])

\* prjConfigFromDetect(root, detect)
PrjConfigFromDetect(ps) ==
    [made |-> TRUE, name |-> RootName, services |-> ServicesOf(ps, <<>>)]

\* input.GetStepResultFormat(result)
GetStepResultFormat(result) == IF result # "nil" THEN "StepFailed" ELSE "StepDone"

\* What the generation calls after ShowSpinner, in order: genProjectFile
\* (lines 322-334), then the infrastructure (lines 263-300).
StepsOf(kind) ==
    IF kind = "projectFile"
    THEN <<"prjConfigFromDetect", "Save", "writeCoreAssets">>
    ELSE <<"MkdirTemp", "Load", "ExecInfra", "MkdirAll",
           "promptForDuplicates", "Copy", "Execute">>

NoGen == [kind |-> "none", at |-> 0, deferred |-> "none", err |-> "nil"]

GenIdle(ps) ==
    /\ detectServices = ps
    /\ gen = NoGen
    /\ config = NoConfig
    /\ stops = <<>>

\* ------------------------------------------------------------ the console
\* Titles passed to ShowSpinner; "" is what StopSpinner leaves.
Titles == {"t1", "t2"}

\* The kinds of formatter: none (or nil), json, any other.
FormatterKinds == {"none", "json", "table"}

\* Bytes by what the console tells apart: '\n', any other character, and
\* the zero byte a new [2]byte holds.
Bytes == {"nl", "ch"}
Messages == SeqsUpTo(Bytes, MaxMsgLen)

\* The console method called last; tick tells one call from the next.
NoOp == [name |-> "none", tick |-> 0]
Called(n) == [name |-> n, tick |-> 1 - lastOp.tick]

NoInteraction == [active |-> FALSE, kind |-> "none", before |-> "none", resume |-> FALSE]

ConsoleIdle(f) ==
    /\ formatter = f
    /\ spinnerStatus = "stopped"
    /\ spinnerCurrentTitle = ""
    /\ lineTitle = ""
    /\ shownTitle = ""
    /\ last2Byte = <<"zero", "zero">>
    /\ interaction = NoInteraction
    /\ lastOp = NoOp
    /\ out = <<>>

\* --------------------------------------------------- progress renderers
Goroutines == 1..NumGoroutines

NoPreviewer == 0
\* c.writer: <<>> is c.defaultWriter, <<p>> the previewer p as an io.Writer.
DefaultWriter == <<>>
PreviewerWriter(p) == <<p>>
AtRest == [op |-> "none", at |-> 0]

ProgressIdle ==
    /\ showProgressMu = NoHolder
    /\ previewer = NoPreviewer
    /\ writer = DefaultWriter
    /\ stoppedLogs = {}
    /\ ppc = [g \in Goroutines |-> AtRest]
    /\ nilCalls = {}
    /\ logs = 0

\* ----------------------------------------------------------------- oneauth
NoStart == [ret |-> "none", by |-> 0]

AuthIdle ==
    /\ started = FALSE
    /\ bridge = FALSE
    /\ running = FALSE
    /\ startRet = NoStart
    /\ starts = 0
    /\ apc = [g \in Goroutines |-> "rest"]

RestIdle ==
    /\ GenIdle(<<>>)
    /\ ConsoleIdle("none")
    /\ ProgressIdle
    /\ AuthIdle

\* ------------------------------------------------------------------- Init
\* A new process: NewDotNetImporter makes both maps empty, nothing is loaded.
ImporterInit ==
    /\ pc = [t \in Callers |-> "idle"]
    /\ arg = [t \in Callers |-> NoArg]
    /\ cur = [t \in Callers |-> NoEntry]
    /\ sel = [t \in Callers |-> {}]
    /\ last = NoRet
    /\ cache = [p \in Paths |-> NoEntry]
    /\ cacheMu = NoHolder
    /\ hostCheck = [p \in Paths |-> NoCheck]
    /\ hostCheckMu = NoHolder
    /\ manifests = <<>>
    /\ envLoaded = FALSE
    /\ envCfg = EmptyDoc
    /\ saved \in InitialDocs
    /\ procKind = "fresh"
    /\ proc = 1
    /\ calls = 0
    /\ discoveries = [p \in Paths |-> 0]
    /\ probes = [p \in Paths |-> 0]
    /\ prompts = [n \in Names |-> 0]
    /\ rendered = {}

\* The importer is exercised in a project directory that is left alone.
Init ==
    /\ ImporterInit
    /\ MergeIdle(EmptyTree)
    /\ SynthIdle(<<>>, "typeBits")
    /\ RenderIdle(NoTemplateData)
    /\ NoneWaiting
    /\ FrontIdle
    /\ RestIdle

\* The callers of readManifest: ProjectInfrastructure and
\* SynthAllInfrastructure pass the manifest they get to
\* `apphost.BicepTemplate(manifest)` (synth = TRUE), Services only reads its
\* project paths. The synthesizer is entered right after readManifest
\* returns, so the return and the hand-over are one step.
Synthesized(rs, id, synth) == IF synth THEN rs \cup {id} ELSE rs

\* -------------------------------------------------------- readManifest
\* A call of readManifest (from ProjectInfrastructure, Services or
\* SynthAllInfrastructure) starts at `ai.cacheMu.Lock()`: a caller that has
\* not got the lock has done nothing yet, so the call begins when it gets it.
\* Entry found: it is returned (the deferred Unlock runs).
RmHit(t, s) ==
    /\ pc[t] = "idle"
    /\ procKind \in {"fresh", "run"}
    /\ calls < MaxCalls
    /\ CanLockCache
    /\ Has(cache, s.path)
    /\ calls' = calls + 1
    /\ procKind' = "run"
    /\ last' = RetModel(cache[s.path], s)
    /\ \E synth \in BOOLEAN :
         rendered' = Synthesized(rendered, cache[s.path], synth)
    /\ UNCHANGED <<pc, arg, cur, sel, cache, cacheMu, hostCheck, hostCheckMu,
                   manifests, envLoaded, envCfg, saved, proc,
                   discoveries, probes, prompts>>

\* No entry: ManifestFromAppHost is called with the lock held.
RmMiss(t, s) ==
    /\ pc[t] = "idle"
    /\ procKind \in {"fresh", "run"}
    /\ calls < MaxCalls
    /\ CanLockCache
    /\ ~Has(cache, s.path)
    /\ calls' = calls + 1
    /\ procKind' = "run"
    /\ cacheMu' = t
    /\ arg' = [arg EXCEPT ![t] = s]
    /\ last' = NoRet
    /\ discoveries' = [discoveries EXCEPT ![s.path] = @ + 1]
    /\ pc' = [pc EXCEPT ![t] = "discover"]
    /\ UNCHANGED <<cur, sel, cache, hostCheck, hostCheckMu,
                   manifests, envLoaded, envCfg, saved, proc,
                   probes, prompts, rendered>>

\* ManifestFromAppHost returns an error: `return nil, err`.
RmDiscoverFails(t) ==
    /\ pc[t] = "discover"
    /\ cache' = CacheOnError(cache, arg[t].path)
    /\ last' = RetErr("discover", arg[t])
    /\ cacheMu' = Unlock(cacheMu)
    /\ pc' = [pc EXCEPT ![t] = "idle"]
    /\ arg' = [arg EXCEPT ![t] = NoArg]
    /\ UNCHANGED <<cur, sel, hostCheck, hostCheckMu, manifests,
                   envLoaded, envCfg, saved, procKind, proc, calls,
                   discoveries, probes, prompts, rendered>>

\* ManifestFromAppHost returns a manifest and lazyEnv.GetValue fails: the
\* failure is logged, the manifest is stored and returned as discovered.
RmEnvFails(t) ==
    /\ pc[t] = "discover"
    /\ ~envLoaded
    /\ LET id == Len(manifests) + 1 IN
        /\ manifests' = Append(manifests, NewManifest(arg[t].path))
        /\ cache' = CacheStore(cache, arg[t].path, id)
        /\ last' = RetModel(id, arg[t])
    /\ cacheMu' = Unlock(cacheMu)
    /\ pc' = [pc EXCEPT ![t] = "idle"]
    /\ arg' = [arg EXCEPT ![t] = NoArg]
    /\ \E synth \in BOOLEAN :
         rendered' = Synthesized(rendered, Len(manifests) + 1, synth)
    /\ UNCHANGED <<cur, sel, hostCheck, hostCheckMu, envLoaded, envCfg,
                   saved, procKind, proc, calls, discoveries, probes, prompts>>

\* The document the environment holds once lazyEnv.GetValue succeeded.
LoadedCfg == IF envLoaded THEN envCfg ELSE saved

\* ManifestFromAppHost returns a manifest, the environment is available and
\* holds the key: the stored decision is applied, the manifest stored.
RmApplyStored(t) ==
    /\ pc[t] = "discover"
    /\ HasKey(LoadedCfg, arg[t].name)
    /\ envLoaded' = TRUE
    /\ envCfg' = LoadedCfg
    /\ LET id == Len(manifests) + 1 IN
        /\ manifests' = Append(manifests,
               MarkExternal(NewManifest(arg[t].path),
                            DecisionNames(LoadedCfg[arg[t].name])))
        /\ cache' = CacheStore(cache, arg[t].path, id)
        /\ last' = RetModel(id, arg[t])
    /\ cacheMu' = Unlock(cacheMu)
    /\ pc' = [pc EXCEPT ![t] = "idle"]
    /\ arg' = [arg EXCEPT ![t] = NoArg]
    /\ \E synth \in BOOLEAN :
         rendered' = Synthesized(rendered, Len(manifests) + 1, synth)
    /\ UNCHANGED <<cur, sel, hostCheck, hostCheckMu, saved, procKind,
                   proc, calls, discoveries, probes, prompts>>

\* ... and does not hold the key: SelectPublicServices is called.
RmPrompt(t) ==
    /\ pc[t] = "discover"
    /\ ~HasKey(LoadedCfg, arg[t].name)
    /\ envLoaded' = TRUE
    /\ envCfg' = LoadedCfg
    /\ manifests' = Append(manifests, NewManifest(arg[t].path))
    /\ cur' = [cur EXCEPT ![t] = Len(manifests) + 1]
    /\ prompts' = [prompts EXCEPT ![arg[t].name] = @ + 1]
    /\ pc' = [pc EXCEPT ![t] = "select"]
    /\ last' = NoRet
    /\ UNCHANGED <<arg, sel, cache, cacheMu, hostCheck, hostCheckMu,
                   saved, procKind, proc, calls, discoveries, probes,
                   rendered>>

\* The prompt fails or is cancelled: `return nil, fmt.Errorf(...)`.
RmSelectFails(t) ==
    /\ pc[t] = "select"
    /\ cache' = CacheOnError(cache, arg[t].path)
    /\ last' = RetErr("select", arg[t])
    /\ cur' = [cur EXCEPT ![t] = NoEntry]
    /\ cacheMu' = Unlock(cacheMu)
    /\ pc' = [pc EXCEPT ![t] = "idle"]
    /\ manifests' = Discard(manifests, cur[t])
    /\ arg' = [arg EXCEPT ![t] = NoArg]
    /\ UNCHANGED <<sel, hostCheck, hostCheckMu, envLoaded,
                   envCfg, saved, procKind, proc, calls, discoveries, probes,
                   prompts, rendered>>

\* The prompt returns the chosen names: their bindings are marked external,
\* then the decision is to be persisted.
RmSelected(t, exposed) ==
    /\ pc[t] = "select"
    /\ manifests' = [manifests EXCEPT ![cur[t]] = MarkExternal(@, exposed)]
    /\ sel' = [sel EXCEPT ![t] = exposed]
    /\ pc' = [pc EXCEPT ![t] = "persist"]
    /\ last' = NoRet
    /\ UNCHANGED <<arg, cur, cache, cacheMu, hostCheck, hostCheckMu,
                   envLoaded, envCfg, saved, procKind, proc, calls,
                   discoveries, probes, prompts, rendered>>

\* Fault variant: Set that loses the value.
ConfigSet_Drop(doc, n, exposed) == doc

\* Fault variant: the key of azd init's import is used for every service.
ConfigSet_FixedKey(doc, n, exposed) == [doc EXCEPT !["app"] = StringSlice(exposed)]

\* The document after `env.Config.Set(key, exposed)`.
ConfigSet(doc, n, exposed) == [doc EXCEPT ![n] = StringSlice(exposed)]

\* Persisting fails at `step`: "set" (Config.Set), "manager"
\* (lazyEnvManager.GetValue) or "save" (envManager.Save). Each returns the
\* error; the last two after Config.Set changed the loaded environment.
RmPersistFails(t, step) ==
    /\ pc[t] = "persist"
    /\ envCfg' = IF step = "set" THEN envCfg
                 ELSE ConfigSet(envCfg, arg[t].name, sel[t])
    /\ cache' = CacheOnError(cache, arg[t].path)
    /\ last' = RetErr("persist", arg[t])
    /\ cur' = [cur EXCEPT ![t] = NoEntry]
    /\ sel' = [sel EXCEPT ![t] = {}]
    /\ cacheMu' = Unlock(cacheMu)
    /\ pc' = [pc EXCEPT ![t] = "idle"]
    /\ manifests' = Discard(manifests, cur[t])
    /\ arg' = [arg EXCEPT ![t] = NoArg]
    /\ UNCHANGED <<hostCheck, hostCheckMu, envLoaded, saved,
                   procKind, proc, calls, discoveries, probes, prompts,
                   rendered>>

\* Config.Set, lazyEnvManager.GetValue and Save succeed: the whole document
\* is written, the manifest is stored and returned.
RmPersisted(t) ==
    /\ pc[t] = "persist"
    /\ envCfg' = ConfigSet(envCfg, arg[t].name, sel[t])
    /\ saved' = Marshal(envCfg')
    /\ cache' = CacheStore(cache, arg[t].path, cur[t])
    /\ last' = RetModel(cur[t], arg[t])
    /\ cur' = [cur EXCEPT ![t] = NoEntry]
    /\ sel' = [sel EXCEPT ![t] = {}]
    /\ cacheMu' = Unlock(cacheMu)
    /\ pc' = [pc EXCEPT ![t] = "idle"]
    /\ arg' = [arg EXCEPT ![t] = NoArg]
    /\ \E synth \in BOOLEAN :
         rendered' = Synthesized(rendered, cur[t], synth)
    /\ UNCHANGED <<hostCheck, hostCheckMu, manifests, envLoaded,
                   procKind, proc, calls, discoveries, probes, prompts>>

ReadManifest(t) ==
    \/ \E s \in SvcConfigs : RmHit(t, s)
    \/ \E s \in SvcConfigs : RmMiss(t, s)
    \/ RmDiscoverFails(t)
    \/ RmEnvFails(t)
    \/ RmApplyStored(t)
    \/ RmPrompt(t)
    \/ RmSelectFails(t)
    \/ \E exposed \in Selections : RmSelected(t, exposed)
    \/ \E step \in {"set", "manager", "save"} : RmPersistFails(t, step)
    \/ RmPersisted(t)

\* ------------------------------------------------------------- CanImport
\* What GetMsBuildProperty may print for IsAspireHost.
ProbeValues ==
    { <<"t", "r", "u", "e">>,
      <<" ", "t", "r", "u", "e", "\n">>,
      <<"f", "a", "l", "s", "e">>,
      <<>> }

IsSpace(c) == c \in {" ", "\n", "\t", "\r"}

RECURSIVE TrimLeft(_)
TrimLeft(v) ==
    IF v # <<>> /\ IsSpace(Head(v)) THEN TrimLeft(Tail(v)) ELSE v

RECURSIVE TrimRight(_)
TrimRight(v) ==
    IF v # <<>> /\ IsSpace(v[Len(v)])
    THEN TrimRight(SubSeq(v, 1, Len(v) - 1))
    ELSE v

\* strings.TrimSpace
TrimSpace(v) == TrimRight(TrimLeft(v))

\* `strings.TrimSpace(value) == "true"`
IsAspireHost(v) == TrimSpace(v) = <<"t", "r", "u", "e">>

\* Fault variant: the failure is returned without being stored.
HostCheckStoreErr_Drop(h, p, e) == h

\* `ai.hostCheck[projectPath] = hostCheckResult{is: false, err: err}`
HostCheckStoreErr(h, p, e) == [h EXCEPT ![p] = [has |-> TRUE, is |-> FALSE, err |-> e]]

\* `ai.hostCheck[projectPath] = hostCheckResult{is: ..., err: nil}`
HostCheckStore(h, p, b) == [h EXCEPT ![p] = [has |-> TRUE, is |-> b, err |-> 0]]

\* A call of CanImport starts when it gets hostCheckMu. Result found: it is
\* returned.
CiHit(t, p) ==
    /\ pc[t] = "idle"
    /\ procKind \in {"fresh", "run"}
    /\ calls < MaxCalls
    /\ CanLockHostCheck
    /\ hostCheck[p].has
    /\ calls' = calls + 1
    /\ procKind' = "run"
    /\ last' = RetBool(hostCheck[p].is, hostCheck[p].err, p)
    /\ UNCHANGED <<pc, arg, cur, sel, cache, cacheMu, hostCheck, hostCheckMu,
                   manifests, envLoaded, envCfg, saved, proc,
                   discoveries, probes, prompts, rendered>>

\* Nothing stored: GetMsBuildProperty runs with the lock held.
CiMiss(t, p) ==
    /\ pc[t] = "idle"
    /\ procKind \in {"fresh", "run"}
    /\ calls < MaxCalls
    /\ CanLockHostCheck
    /\ ~hostCheck[p].has
    /\ calls' = calls + 1
    /\ procKind' = "run"
    /\ hostCheckMu' = t
    /\ arg' = [arg EXCEPT ![t] = [name |-> "", path |-> p]]
    /\ last' = NoRet
    /\ probes' = [probes EXCEPT ![p] = @ + 1]
    /\ pc' = [pc EXCEPT ![t] = "probe"]
    /\ UNCHANGED <<cur, sel, cache, cacheMu, hostCheck, manifests,
                   envLoaded, envCfg, saved, proc,
                   discoveries, prompts, rendered>>

\* GetMsBuildProperty fails: the error is stored and returned. The number of
\* the probe identifies the error value.
CiProbeFails(t) ==
    /\ pc[t] = "probe"
    /\ hostCheck' = HostCheckStoreErr(hostCheck, arg[t].path, probes[arg[t].path])
    /\ last' = RetBool(FALSE, probes[arg[t].path], arg[t].path)
    /\ hostCheckMu' = Unlock(hostCheckMu)
    /\ pc' = [pc EXCEPT ![t] = "idle"]
    /\ arg' = [arg EXCEPT ![t] = NoArg]
    /\ UNCHANGED <<cur, sel, cache, cacheMu, manifests, envLoaded,
                   envCfg, saved, procKind, proc, calls, discoveries, probes,
                   prompts, rendered>>

\* GetMsBuildProperty prints v: the comparison is stored and returned.
CiProbed(t, v) ==
    /\ pc[t] = "probe"
    /\ hostCheck' = HostCheckStore(hostCheck, arg[t].path, IsAspireHost(v))
    /\ last' = RetBool(IsAspireHost(v), 0, arg[t].path)
    /\ hostCheckMu' = Unlock(hostCheckMu)
    /\ pc' = [pc EXCEPT ![t] = "idle"]
    /\ arg' = [arg EXCEPT ![t] = NoArg]
    /\ UNCHANGED <<cur, sel, cache, cacheMu, manifests, envLoaded,
                   envCfg, saved, procKind, proc, calls, discoveries, probes,
                   prompts, rendered>>

CanImport(t) ==
    \/ \E p \in Paths : CiHit(t, p)
    \/ \E p \in Paths : CiMiss(t, p)
    \/ CiProbeFails(t)
    \/ \E v \in ProbeValues : CiProbed(t, v)

\* ----------------------------------------------- InitFromApp (app host)
\* The import that azd init writes to azure.yaml is named "app".
InitSvc == [name |-> "app", path |-> "p1"]

\* azd init in a project that has no environment yet: the app host's
\* manifest is generated (line 91) and, the project confirmed, the ingress
\* selector prompts (line 138).
InitEnter(t) ==
    /\ pc[t] = "idle"
    /\ procKind = "fresh"
    /\ saved = EmptyDoc
    /\ calls < MaxCalls
    /\ calls' = calls + 1
    /\ procKind' = "init"
    /\ arg' = [arg EXCEPT ![t] = InitSvc]
    /\ last' = NoRet
    /\ \/ /\ pc' = [pc EXCEPT ![t] = "initFailed"]
          /\ UNCHANGED <<manifests, cur, prompts>>
       \/ /\ manifests' = Append(manifests, NewManifest(InitSvc.path))
          /\ cur' = [cur EXCEPT ![t] = Len(manifests) + 1]
          /\ prompts' = [prompts EXCEPT ![InitSvc.name] = @ + 1]
          /\ pc' = [pc EXCEPT ![t] = "initSelect"]
    /\ UNCHANGED <<sel, cache, cacheMu, hostCheck, hostCheckMu, envLoaded,
                   envCfg, saved, proc, discoveries, probes, rendered>>

\* SelectPublicServices fails: `return err`.
InitSelectFails(t) ==
    /\ pc[t] = "initSelect"
    /\ last' = RetErr("select", arg[t])
    /\ pc' = [pc EXCEPT ![t] = "initFailed"]
    /\ UNCHANGED <<arg, cur, sel, cache, cacheMu, hostCheck, hostCheckMu,
                   manifests, envLoaded, envCfg, saved, procKind, proc, calls,
                   discoveries, probes, prompts, rendered>>

\* SelectPublicServices returns the chosen names.
InitSelected(t, exposed) ==
    /\ pc[t] = "initSelect"
    /\ sel' = [sel EXCEPT ![t] = exposed]
    /\ pc' = [pc EXCEPT ![t] = "initPersist"]
    /\ last' = NoRet
    /\ UNCHANGED <<arg, cur, cache, cacheMu, hostCheck, hostCheckMu,
                   manifests, envLoaded, envCfg, saved, procKind, proc, calls,
                   discoveries, probes, prompts, rendered>>

\* initializeEnv, Config.Set, lazyEnvManager.GetValue or Save fails at
\* `step`: `return err`, nothing is generated.
InitPersistFails(t, step) ==
    /\ pc[t] = "initPersist"
    /\ envLoaded' = (step # "env")
    /\ envCfg' = CASE step = "env" -> envCfg
                   [] step = "set" -> saved
                   [] OTHER -> ConfigSet(saved, arg[t].name, sel[t])
    /\ last' = RetErr("persist", arg[t])
    /\ sel' = [sel EXCEPT ![t] = {}]
    /\ pc' = [pc EXCEPT ![t] = "initFailed"]
    /\ UNCHANGED <<arg, cur, cache, cacheMu, hostCheck, hostCheckMu,
                   manifests, saved, procKind, proc, calls, discoveries,
                   probes, prompts, rendered>>

\* The decision is set and saved, then GenerateProjectArtifacts renders the
\* manifest generated at line 91 (the synthesizer is handed that manifest).
InitPersisted(t) ==
    /\ pc[t] = "initPersist"
    /\ envLoaded' = TRUE
    /\ envCfg' = ConfigSet(saved, arg[t].name, sel[t])
    /\ saved' = Marshal(envCfg')
    /\ last' = RetGenerated(cur[t], arg[t])
    /\ pc' = [pc EXCEPT ![t] = "initDone"]
    /\ rendered' = Synthesized(rendered, cur[t], TRUE)
    /\ UNCHANGED <<arg, cur, sel, cache, cacheMu, hostCheck, hostCheckMu,
                   manifests, procKind, proc, calls, discoveries, probes,
                   prompts>>

InitFromApp(t) ==
    \/ InitEnter(t)
    \/ InitSelectFails(t)
    \/ \E exposed \in Selections : InitSelected(t, exposed)
    \/ \E step \in {"env", "set", "manager", "save"} : InitPersistFails(t, step)
    \/ InitPersisted(t)

\* ---------------------------------- InitFromApp up to the generation
\* `appHostForProject`: the directories owned by a detected app host.
AppHostForProject(ps) ==
    UNION {ManifestProjectDirs(p.path) : p \in {q \in ps : q.appHost}}

\* Lines 102-111: the projects no app host owns.
FilteredProject(ps) == {p \in ps : p.path \notin AppHostForProject(ps)}

\* Fault variant: any number of projects is accepted.
SingleAppHostOnly_Off(ps) == FALSE

\* Lines 121-125: an app host among the projects and `len(projects) != 1`.
SingleAppHostOnly(ps) ==
    (\E p \in ps : p.appHost) /\ Cardinality(ps) # 1

\* The branch InitFromApp takes for the filtered projects.
BranchOf(ps) == IF \E p \in ps : p.appHost THEN "apphost" ELSE "detect"

\* The steps between the project list and the generation, in the order of
\* the code: app host branch lines 127-163, other projects lines 222-248.
FrontSteps(b) ==
    IF b = "apphost"
    THEN <<"confirm", "select", "env", "set", "manager", "save">>
    ELSE <<"confirm", "spec", "env">>

\* Fault variant: the project file is written before the environment is
\* there.
BeforeGeneration_ProjectFile(d) == [d EXCEPT !["azure.yaml"] = GenBytes]

\* The project directory as the statements before the generation leave it:
\* none of them writes a file of the project.
BeforeGeneration(d) == d

\* The merge variables a step before the generation cannot touch.
keptByFront ==
    <<mpc, branch, tmpDir, stage, skip, conflicts, copied, dupPrompts, mret,
      runs, leaked, owned, lastRun>>

\* InitFromApp returns `e` before the generation.
FReturnErr(e) ==
    /\ front' = [NoCall EXCEPT !.phase = "failed", !.err = e]
    /\ dest' = BeforeGeneration(dest)
    /\ UNCHANGED keptByFront
    /\ UNCHANGED nonMergeFrontVars

\* InitFromApp is called and appdetect.Detect returns the projects ps.
FDetected(ps) ==
    /\ mpc = "idle"
    /\ front.phase \in {"idle", "failed"}
    /\ runs < MaxRuns
    /\ front' = [NoCall EXCEPT !.phase = "detected", !.projects = ps,
                               !.dest0 = dest]
    /\ dest' = BeforeGeneration(dest)
    /\ UNCHANGED keptByFront
    /\ UNCHANGED nonMergeFrontVars

\* InitFromApp is called and appdetect.Detect fails (lines 73-76).
FDetectFails ==
    /\ mpc = "idle"
    /\ front.phase \in {"idle", "failed"}
    /\ runs < MaxRuns
    /\ front' = [NoCall EXCEPT !.phase = "failed", !.err = "detect"]
    /\ dest' = BeforeGeneration(dest)
    /\ UNCHANGED keptByFront
    /\ UNCHANGED nonMergeFrontVars

\* ManifestFromAppHost fails for a detected app host (lines 91-94).
FManifestFails ==
    /\ front.phase = "detected"
    /\ \E p \in front.projects : p.appHost
    /\ FReturnErr("manifest")

\* The manifests are loaded and the owned projects removed (lines 86-111).
FFiltered ==
    /\ front.phase = "detected"
    /\ front' = [front EXCEPT !.phase = "filtered",
                              !.projects = FilteredProject(front.projects)]
    /\ dest' = BeforeGeneration(dest)
    /\ UNCHANGED keptByFront
    /\ UNCHANGED nonMergeFrontVars

\* `return errors.New("only a single Aspire project is supported at this
\* time")` (line 124).
FSingleOnly ==
    /\ front.phase = "filtered"
    /\ SingleAppHostOnly(front.projects)
    /\ FReturnErr("single")

\* `return ErrNoServicesDetected` (line 225).
FNoServices ==
    /\ front.phase = "filtered"
    /\ ~SingleAppHostOnly(front.projects)
    /\ front.projects = {}
    /\ FReturnErr("noServices")

\* The branch is taken; its first step is the confirmation prompt.
FBranch ==
    /\ front.phase = "filtered"
    /\ ~SingleAppHostOnly(front.projects)
    /\ front.projects # {}
    /\ front' = [front EXCEPT !.phase = "steps", !.projects = {},
                              !.branch = BranchOf(front.projects), !.at = 1]
    /\ dest' = BeforeGeneration(dest)
    /\ UNCHANGED keptByFront
    /\ UNCHANGED nonMergeFrontVars

\* The step the call is at returns an error: `return err`.
FStepFails ==
    /\ front.phase = "steps"
    /\ FReturnErr(FrontSteps(front.branch)[front.at])

\* The step the call is at succeeds; after the last one the generation is
\* next.
FStep ==
    /\ front.phase = "steps"
    /\ front' =
         [front EXCEPT
            !.done = @ \cup {FrontSteps(front.branch)[front.at]},
            !.at = @ + 1,
            !.phase = IF front.at = Len(FrontSteps(front.branch))
                      THEN "ready" ELSE "steps"]
    /\ dest' = BeforeGeneration(dest)
    /\ UNCHANGED keptByFront
    /\ UNCHANGED nonMergeFrontVars

\* ---------------------------------- temporary directories and the merge
\* The operations that render into a temporary directory:
\*   "apphost"  InitFromApp for an app host project (lines 167-219)
\*   "detect"   InitFromApp for detected services (lines 252-309)
\*   "infra"    DotNetImporter.ProjectInfrastructure (lines 97-140)
Branches == {"apphost", "detect", "infra"}

\* The files an operation writes into its temporary directory, named by
\* the path of the project directory they belong to.
StagedPaths(b) ==
    CASE b = "apphost" -> {"azure.yaml", "next-steps.md"}
      [] b = "detect" -> {"infra/main.bicep"}
      [] b = "infra" -> {"infra/main.bicep"}
      [] OTHER -> {}

\* The paths inside the directory the staged files are merged into: the
\* project directory for an app host, its infra directory otherwise.
Destination(b) ==
    CASE b = "apphost" -> FilePaths
      [] b = "detect" -> {"infra/main.bicep"}
      [] OTHER -> {}

\* `i.genProjectFile(ctx, azdCtx, detect)`: project.Save writes azure.yaml
\* at azdCtx.ProjectPath(); only the "detect" branch calls it.
ProjectFileWritten(b, d) ==
    IF b = "detect" THEN [d EXCEPT !["azure.yaml"] = GenBytes] ELSE d

\* `scaffold.Execute(t, "next-steps.md", spec, <project>/next-steps.md)`,
\* the last step of the "detect" branch.
NextStepsWritten(b, d) ==
    IF b = "detect" THEN [d EXCEPT !["next-steps.md"] = GenBytes] ELSE d

\* promptForDuplicates compares the staged files with the destination:
\* the staged paths whose destination exists with other bytes ...
Duplicates(st, d) ==
    {p \in FilePaths : st[p] # NoFile /\ d[p] # NoFile /\ d[p] # st[p]}

\* ... and those whose destination holds the same bytes already.
Identical(st, d) == {p \in FilePaths : st[p] # NoFile /\ d[p] = st[p]}

\* Fault variant: Skip excludes every file.
Skipped_Always(skipStagingFiles, src) == TRUE

\* Fault variant: Skip is never set.
Skipped_Never(skipStagingFiles, src) == FALSE

\* Fault variant: the lookup is negated.
Skipped_Negated(skipStagingFiles, src) == src \notin skipStagingFiles

\* `options.Skip`: `_, skip := skipStagingFiles[src]; return skip, nil`
\* (a nil map sets no Skip: nothing is skipped).
Skipped(skipStagingFiles, src) == src \in skipStagingFiles

\* `defer func() { _ = os.RemoveAll(staging) }()` follows MkdirTemp in both
\* branches of InitFromApp; ProjectInfrastructure has no such statement.
RemovedAtReturn(b) == b \in {"apphost", "detect"}

\* The staged files copy.Copy has still to write.
ToCopy == {p \in FilePaths : stage[p] # NoFile /\ ~Skipped(skip, p)} \ copied

\* The operation returns `result`. Its temporary directory, if it has one,
\* is removed by the deferred call, or belongs to the Infra that is
\* returned (cleanupDir), or is left behind.
MReturn(result) ==
    /\ mret' = result
    /\ mpc' = "idle"
    /\ branch' = "none"
    /\ tmpDir' = FALSE
    /\ stage' = EmptyTree
    /\ leaked' = IF tmpDir /\ ~RemovedAtReturn(branch) /\ result = "err"
                 THEN leaked + 1 ELSE leaked
    /\ owned' = IF tmpDir /\ ~RemovedAtReturn(branch) /\ result = "ok"
                THEN owned + 1 ELSE owned
    /\ lastRun' = [branch |-> branch, result |-> result,
                   kept |-> conflicts \cap skip]

\* An operation starts to generate: ProjectInfrastructure when it is
\* called, InitFromApp once its steps before the generation are through.
MStart(b) ==
    /\ mpc = "idle"
    /\ runs < MaxRuns
    /\ IF b = "infra"
       THEN front.phase = "idle" /\ front' = front
       ELSE front.phase = "ready" /\ front.branch = b /\ front' = NoCall
    /\ runs' = runs + 1
    /\ branch' = b
    /\ mpc' = "render"
    /\ mret' = "none"
    /\ skip' = {}
    /\ conflicts' = {}
    /\ copied' = {}
    /\ UNCHANGED <<tmpDir, stage, dest, dupPrompts, leaked, owned, lastRun>>
    /\ UNCHANGED nonMergeFrontVars

\* GenerateProjectArtifacts, BicepTemplate or genProjectFile fails: the
\* error is returned before any directory is made.
MRenderFails ==
    /\ mpc = "render"
    /\ MReturn("err")
    /\ UNCHANGED <<dest, skip, conflicts, copied, dupPrompts, runs>>
    /\ UNCHANGED nonMergeVars

\* The files are rendered in memory; the "detect" branch has written the
\* project file by now.
MRendered ==
    /\ mpc = "render"
    /\ dest' = ProjectFileWritten(branch, dest)
    /\ mpc' = "mkdir"
    /\ UNCHANGED <<branch, tmpDir, stage, skip, conflicts, copied, dupPrompts,
                   mret, runs, leaked, owned, lastRun>>
    /\ UNCHANGED nonMergeVars

\* `os.MkdirTemp("", "azd-infra")` fails.
MMkdirTempFails ==
    /\ mpc = "mkdir"
    /\ MReturn("err")
    /\ UNCHANGED <<dest, skip, conflicts, copied, dupPrompts, runs>>
    /\ UNCHANGED nonMergeVars

\* `os.MkdirTemp("", "azd-infra")` makes the directory.
MMkdirTemp ==
    /\ mpc = "mkdir"
    /\ tmpDir' = TRUE
    /\ mpc' = "write"
    /\ UNCHANGED <<branch, stage, dest, skip, conflicts, copied, dupPrompts,
                   mret, runs, leaked, owned, lastRun>>
    /\ UNCHANGED nonMergeVars

\* One rendered file is written into the temporary directory (the order
\* is that of a map iteration or of a directory walk).
MWriteStaged(p) ==
    /\ mpc = "write"
    /\ p \in StagedPaths(branch)
    /\ stage[p] = NoFile
    /\ stage' = [stage EXCEPT ![p] = GenBytes]
    /\ UNCHANGED <<mpc, branch, tmpDir, dest, skip, conflicts, copied,
                   dupPrompts, mret, runs, leaked, owned, lastRun>>
    /\ UNCHANGED nonMergeVars

\* Writing a file (MkdirAll, WriteFile, scaffold.Load, ExecInfra, the walk
\* of ProjectInfrastructure) fails: the error is returned.
MWriteFails ==
    /\ mpc = "write"
    /\ \E p \in StagedPaths(branch) : stage[p] = NoFile
    /\ MReturn("err")
    /\ UNCHANGED <<dest, skip, conflicts, copied, dupPrompts, runs>>
    /\ UNCHANGED nonMergeVars

\* ProjectInfrastructure has written every file: it returns the Infra that
\* owns the directory.
MInfraReturned ==
    /\ mpc = "write"
    /\ branch = "infra"
    /\ \A p \in StagedPaths(branch) : stage[p] # NoFile
    /\ MReturn("ok")
    /\ UNCHANGED <<dest, skip, conflicts, copied, dupPrompts, runs>>
    /\ UNCHANGED nonMergeVars

\* InitFromApp has staged every file: promptForDuplicates compares them
\* with the destination. Without a differing file nobody is asked; the
\* files that are there already with the same bytes are skipped.
MNoDuplicates ==
    /\ mpc = "write"
    /\ branch \in {"apphost", "detect"}
    /\ \A p \in StagedPaths(branch) : stage[p] # NoFile
    /\ Duplicates(stage, dest) = {}
    /\ conflicts' = {}
    /\ skip' = Identical(stage, dest)
    /\ mpc' = "copy"
    /\ UNCHANGED <<branch, tmpDir, stage, dest, copied, dupPrompts, mret,
                   runs, leaked, owned, lastRun>>
    /\ UNCHANGED nonMergeVars

\* With differing files all of them are listed and the user is asked once.
MDuplicates ==
    /\ mpc = "write"
    /\ branch \in {"apphost", "detect"}
    /\ \A p \in StagedPaths(branch) : stage[p] # NoFile
    /\ Duplicates(stage, dest) # {}
    /\ conflicts' = Duplicates(stage, dest)
    /\ dupPrompts' = dupPrompts + 1
    /\ mpc' = "ask"
    /\ UNCHANGED <<branch, tmpDir, stage, dest, skip, copied, mret, runs,
                   leaked, owned, lastRun>>
    /\ UNCHANGED nonMergeVars

\* The prompt fails: promptForDuplicates returns the error.
MAskFails ==
    /\ mpc = "ask"
    /\ MReturn("err")
    /\ UNCHANGED <<dest, skip, conflicts, copied, dupPrompts, runs>>
    /\ UNCHANGED nonMergeVars

\* The user keeps the files of `keep` and lets the others be overwritten.
MAnswered(keep) ==
    /\ mpc = "ask"
    /\ keep \subseteq conflicts
    /\ skip' = keep \cup Identical(stage, dest)
    /\ mpc' = "copy"
    /\ UNCHANGED <<branch, tmpDir, stage, dest, conflicts, copied, dupPrompts,
                   mret, runs, leaked, owned, lastRun>>
    /\ UNCHANGED nonMergeVars

\* copy.Copy writes one staged file that Skip does not exclude.
MCopyFile(p) ==
    /\ mpc = "copy"
    /\ p \in ToCopy
    /\ dest' = [dest EXCEPT ![p] = stage[p]]
    /\ copied' = copied \cup {p}
    /\ UNCHANGED <<mpc, branch, tmpDir, stage, skip, conflicts, dupPrompts,
                   mret, runs, leaked, owned, lastRun>>
    /\ UNCHANGED nonMergeVars

\* copy.Copy fails with files still to write.
MCopyFails ==
    /\ mpc = "copy"
    /\ ToCopy # {}
    /\ MReturn("err")
    /\ UNCHANGED <<dest, skip, conflicts, copied, dupPrompts, runs>>
    /\ UNCHANGED nonMergeVars

\* copy.Copy is done. The "detect" branch renders next-steps.md into the
\* project directory; then InitFromApp returns.
MCopied ==
    /\ mpc = "copy"
    /\ ToCopy = {}
    /\ dest' = NextStepsWritten(branch, dest)
    /\ MReturn("ok")
    /\ UNCHANGED <<skip, conflicts, copied, dupPrompts, runs>>
    /\ UNCHANGED nonMergeVars

\* ... or what follows copy.Copy (scaffold.Execute, writeCoreAssets) fails.
MFinishFails ==
    /\ mpc = "copy"
    /\ ToCopy = {}
    /\ MReturn("err")
    /\ UNCHANGED <<dest, skip, conflicts, copied, dupPrompts, runs>>
    /\ UNCHANGED nonMergeVars

\* A project with nothing stored in its environment, any files in its
\* directory.
InitMerge ==
    /\ ImporterInit
    /\ saved = EmptyDoc
    /\ \E d \in InitialTrees : MergeIdle(d)
    /\ SynthIdle(<<>>, "typeBits")
    /\ RenderIdle(NoTemplateData)
    /\ NoneWaiting
    /\ FrontIdle
    /\ RestIdle

NextMerge ==
    \/ \E ps \in SUBSET DetectedProjects : FDetected(ps)
    \/ FDetectFails
    \/ FManifestFails
    \/ FFiltered
    \/ FSingleOnly
    \/ FNoServices
    \/ FBranch
    \/ FStepFails
    \/ FStep
    \/ \E b \in Branches : MStart(b)
    \/ MRenderFails
    \/ MRendered
    \/ MMkdirTempFails
    \/ MMkdirTemp
    \/ \E p \in FilePaths : MWriteStaged(p)
    \/ MWriteFails
    \/ MInfraReturned
    \/ MNoDuplicates
    \/ MDuplicates
    \/ MAskFails
    \/ \E keep \in SUBSET FilePaths : MAnswered(keep)
    \/ \E p \in FilePaths : MCopyFile(p)
    \/ MCopyFails
    \/ MCopied
    \/ MFinishFails

SpecMerge == InitMerge /\ [][NextMerge]_vars

\* ------------------------------------------- SynthAllInfrastructure
\* The call starts: readManifest has returned the manifest.
SyStart ==
    /\ spc = "idle"
    /\ Len(results) < MaxSynths
    /\ spc' = "bicep"
    /\ generatedFS' = EmptyFS
    /\ todo' = DOMAIN projectPaths
    /\ order' = <<>>
    /\ UNCHANGED <<projectPaths, dirEntry, results>>
    /\ UNCHANGED nonSynthVars

\* The call returns an error; generatedFS is dropped.
SyReturnErr(e) ==
    /\ results' = Append(results, [ok |-> FALSE, err |-> e,
                                   tree |-> EmptyFS, order |-> order])
    /\ spc' = "idle"
    /\ generatedFS' = EmptyFS
    /\ todo' = {}
    /\ order' = <<>>
    /\ UNCHANGED <<projectPaths, dirEntry>>
    /\ UNCHANGED nonSynthVars

\* BicepTemplate fails, or the walk over its files does.
SyBicepFails ==
    /\ spc = "bicep"
    /\ SyReturnErr([op |-> "infra", names |-> {}])

\* The fs.WalkDir callback, for every file of the rendered tree:
\* `generatedFS.WriteFile(filepath.Join("infra", path), contents,
\* d.Type().Perm())`. WalkDir visits the files in lexical order.
SyWalk ==
    /\ spc = "bicep"
    /\ generatedFS' =
         [p \in SynthPaths |->
            IF \E f \in DOMAIN InfraFiles : p = InfraPath(f)
            THEN LET f == CHOOSE g \in DOMAIN InfraFiles : p = InfraPath(g)
                 IN [contents |-> BicepContents(f, projectPaths),
                     mode |-> Perm(EntryType(dirEntry, InfraFiles[f]))]
            ELSE generatedFS[p]]
    /\ spc' = "projects"
    /\ UNCHANGED <<projectPaths, dirEntry, todo, order, results>>
    /\ UNCHANGED nonSynthVars

\* One round of `for name, path := range apphost.ProjectPaths(manifest)`:
\* Go picks the next key of a map in no fixed order.
SyProject(name) ==
    /\ spc = "projects"
    /\ name \in todo
    /\ generatedFS' =
         [generatedFS EXCEPT ![ManifestPath(projectPaths[name])] =
            [contents |-> ContainerAppManifest(name),
             mode |-> PermissionFileOwnerOnly]]
    /\ todo' = todo \ {name}
    /\ order' = Append(order, name)
    /\ UNCHANGED <<projectPaths, dirEntry, spc, results>>
    /\ UNCHANGED nonSynthVars

\* ContainerAppManifestTemplateForProject or filepath.Rel fails for `name`.
SyProjectFails(name) ==
    /\ spc = "projects"
    /\ name \in todo
    /\ SyReturnErr([op |-> "containerApp", names |-> {name}])

\* `return generatedFS, nil` after the last project.
SyReturn ==
    /\ spc = "projects"
    /\ todo = {}
    /\ results' = Append(results, [ok |-> TRUE, err |-> [op |-> "none", names |-> {}],
                                   tree |-> generatedFS, order |-> order])
    /\ spc' = "idle"
    /\ generatedFS' = EmptyFS
    /\ order' = <<>>
    /\ UNCHANGED <<projectPaths, dirEntry, todo>>
    /\ UNCHANGED nonSynthVars

\* One process, one manifest (the cache returns the same one to every
\* call), any number of SynthAllInfrastructure calls on it.
InitSynth ==
    /\ ImporterInit
    /\ saved = EmptyDoc
    /\ MergeIdle(EmptyTree)
    /\ \E pp \in ProjectPathMaps, kind \in DirEntryKinds : SynthIdle(pp, kind)
    /\ RenderIdle(NoTemplateData)
    /\ NoneWaiting
    /\ FrontIdle
    /\ RestIdle

NextSynth ==
    \/ SyStart
    \/ SyBicepFails
    \/ SyWalk
    \/ \E name \in Projects : SyProject(name)
    \/ \E name \in Projects : SyProjectFails(name)
    \/ SyReturn

SpecSynth == InitSynth /\ [][NextSynth]_vars

\* ----------------------------------------------- host-containerapp.bicept
\* The rendering of the template, section by section, as the lists of the
\* declarations it emits. A value is an expression of the output: a
\* parameter or variable name, with an index where the template writes one.
Val(ref) == [ref |-> ref, idx |-> -1]
ValAt(ref, i) == [ref |-> ref, idx |-> i]

When(cond, items) == IF cond THEN items ELSE <<>>

\* `{{if (and .Frontend .Frontend.Backends)}}`: a nil pointer and an empty
\* list are both false.
HasBackends(d) == d.Frontend.present /\ Len(d.Frontend.refs) > 0
HasFrontends(d) == d.Backend.present /\ Len(d.Backend.refs) > 0

\* `upper`: strings.ToUpper over the names in use.
Upper(n) == CASE n = "api" -> "API" [] n = "auth" -> "AUTH" [] OTHER -> n

Param(n) == [name |-> n, secure |-> FALSE]
SecureParam(n) == [name |-> n, secure |-> TRUE]

\* Lines 2-32: the `param` declarations.
Params(d) ==
    <<Param("name"), Param("location"), Param("tags"), Param("identityName"),
      Param("containerRegistryName"), Param("containerAppsEnvironmentName"),
      Param("applicationInsightsName")>>
    \o When(d.DbCosmosMongo, <<SecureParam("cosmosDbConnectionString")>>)
    \o When(d.DbPostgres,
            <<Param("databaseHost"), Param("databaseUser"),
              Param("databaseName"), SecureParam("databasePassword")>>)
    \o When(d.DbRedis, <<Param("redisName")>>)
    \o When(HasBackends(d), <<Param("apiUrls")>>)
    \o When(HasFrontends(d), <<Param("allowedOrigins")>>)
    \o <<Param("exists"), SecureParam("appDefinition")>>

\* Lines 45-104: the `resource` and `module` declarations.
Resources(d) ==
    <<"identity", "containerRegistry", "containerAppsEnvironment",
      "applicationInsights", "acrPullRole", "fetchLatestImage">>
    \o When(d.DbRedis, <<"redis">>)
    \o <<"app">>

\* Lines 116-129: the ingress block and its properties.
Ingress(d) ==
    When(d.Port # 0,
         <<"external", "targetPort", "transport">>
         \o When(HasFrontends(d), <<"corsPolicy">>))

Secret(n, v) == [name |-> n, value |-> v]

\* Lines 136-153: `secrets: union([...], map(secrets, ...))`.
Secrets(d) ==
    When(d.DbCosmosMongo,
         <<Secret("azure-cosmos-connection-string",
                  Val("cosmosDbConnectionString"))>>)
    \o When(d.DbPostgres, <<Secret("db-pass", Val("databasePassword"))>>)
    \o <<Secret("secret.secretRef", Val("secret.value"))>>

NoRef == ""
NoVal == Val("")
EnvValue(n, v) == [name |-> n, value |-> v, secretRef |-> NoRef]
EnvSecret(n, r) == [name |-> n, value |-> NoVal, secretRef |-> r]

\* `{{range $i, $e := .Frontend.Backends}}`: one entry per back end, the
\* index counted from 0.
BaseUrls(refs) ==
    [k \in 1..Len(refs) |->
        EnvValue(<<Upper(refs[k]), "_BASE_URL">>, ValAt("apiUrls", k - 1))]

\* Fault variant: the password is passed as a plain value.
PostgresEnv_PlainPassword(d) ==
    When(d.DbPostgres,
         <<EnvValue(<<"DB_HOST">>, Val("databaseHost")),
           EnvValue(<<"DB_USER">>, Val("databaseUser")),
           EnvValue(<<"DB_NAME">>, Val("databaseName")),
           EnvValue(<<"DB_PASS">>, Val("databasePassword")),
           EnvValue(<<"DB_PORT">>, Val("'5432'"))>>)

\* Fault variant: the block is emitted whatever the service declares.
PostgresEnv_Unguarded(d) ==
    <<EnvValue(<<"DB_HOST">>, Val("databaseHost")),
      EnvValue(<<"DB_USER">>, Val("databaseUser")),
      EnvValue(<<"DB_NAME">>, Val("databaseName")),
      EnvSecret(<<"DB_PASS">>, "db-pass"),
      EnvValue(<<"DB_PORT">>, Val("'5432'"))>>

\* Lines 171-192: the environment entries of `{{if .DbPostgres}}`.
PostgresEnv(d) ==
    When(d.DbPostgres,
         <<EnvValue(<<"DB_HOST">>, Val("databaseHost")),
           EnvValue(<<"DB_USER">>, Val("databaseUser")),
           EnvValue(<<"DB_NAME">>, Val("databaseName")),
           EnvSecret(<<"DB_PASS">>, "db-pass"),
           EnvValue(<<"DB_PORT">>, Val("'5432'"))>>)

\* Lines 160-212: `env: union([...], env, map(secrets, ...))`.
Env(d) ==
    <<EnvValue(<<"APPLICATIONINSIGHTS_CONNECTION_STRING">>,
               Val("applicationInsights.properties.ConnectionString"))>>
    \o When(d.DbCosmosMongo,
            <<EnvSecret(<<"AZURE_COSMOS_MONGODB_CONNECTION_STRING">>,
                        "azure-cosmos-connection-string")>>)
    \o PostgresEnv(d)
    \o When(d.Frontend.present, BaseUrls(d.Frontend.refs))
    \o When(d.Port # 0, <<EnvValue(<<"PORT">>, Val("'{{.Port}}'"))>>)
    \o <<EnvValue(<<"env.name">>, Val("env.value")),
         EnvSecret(<<"secret.name">>, "secret.secretRef")>>

\* Lines 219-226: `serviceBinds`.
ServiceBinds(d) == When(d.DbRedis, <<"redis">>)

Output(n, ref) == [name |-> n, ref |-> ref]

\* Lines 235-238: the `output` declarations, none of them inside an action
\* of the template.
Outputs(d) ==
    <<Output("defaultDomain", "containerAppsEnvironment.properties.defaultDomain"),
      Output("name", "app.name"),
      Output("uri", "app.properties.configuration.ingress.fqdn"),
      Output("id", "app.id")>>

\* `{{define "host-containerapp.bicep"}} ... {{end}}` executed with d.
Render(d) ==
    [ rendered |-> TRUE,
      params |-> Params(d),
      resources |-> Resources(d),
      ingress |-> Ingress(d),
      secrets |-> Secrets(d),
      env |-> Env(d),
      serviceBinds |-> ServiceBinds(d),
      outputs |-> Outputs(d) ]

\* scaffold executes the template for a service.
Execute ==
    /\ bicep = NotRendered
    /\ bicep' = Render(tmplData)
    /\ UNCHANGED tmplData
    /\ UNCHANGED nonRenderVars

InitRender ==
    /\ ImporterInit
    /\ saved = EmptyDoc
    /\ MergeIdle(EmptyTree)
    /\ SynthIdle(<<>>, "typeBits")
    /\ \E d \in TemplateData : RenderIdle(d)
    /\ NoneWaiting
    /\ FrontIdle
    /\ RestIdle

NextRender == Execute

SpecRender == InitRender /\ [][NextRender]_vars

\* ------------------------------------------------- waiting for the locks
\* The calls of one process with the wait at `Lock()` made visible: a
\* caller first blocks on the mutex, then gets it, then runs to its return.
Pending == Cardinality({t \in Callers : waiting[t] # NoRequest})

\* readManifest or CanImport is called and reaches `Lock()`.
LvCall(t, r) ==
    /\ pc[t] = "idle"
    /\ waiting[t] = NoRequest
    /\ calls + Pending < MaxLiveCalls
    /\ waiting' = [waiting EXCEPT ![t] = r]
    /\ UNCHANGED nonLiveVars

\* `Lock()` returns: the call goes on as a hit or as a miss.
LvLock(t) ==
    /\ waiting[t] # NoRequest
    /\ LET s == [name |-> waiting[t].name, path |-> waiting[t].path]
       IN \/ waiting[t].op = "readManifest" /\ RmHit(t, s)
          \/ waiting[t].op = "readManifest" /\ RmMiss(t, s)
          \/ waiting[t].op = "canImport" /\ CiHit(t, s.path)
          \/ waiting[t].op = "canImport" /\ CiMiss(t, s.path)
    /\ waiting' = [waiting EXCEPT ![t] = NoRequest]
    /\ UNCHANGED <<mergeVars, synthVars, renderVars, frontVars, restVars>>

\* The holder of a mutex takes its next step: an external call returns,
\* with a value or with an error.
LvRun(t) ==
    /\ \/ RmDiscoverFails(t)
       \/ RmEnvFails(t)
       \/ RmApplyStored(t)
       \/ RmPrompt(t)
       \/ RmSelectFails(t)
       \/ \E exposed \in Selections : RmSelected(t, exposed)
       \/ \E step \in {"set", "manager", "save"} : RmPersistFails(t, step)
       \/ RmPersisted(t)
       \/ CiProbeFails(t)
       \/ \E v \in ProbeValues : CiProbed(t, v)
    /\ UNCHANGED nonImporterVars

\* A process whose environment has no decision stored, or a stored list.
InitLive == Init /\ saved # [EmptyDoc EXCEPT !["app"] = NotAList]

NextLive ==
    \/ \E t \in Callers, r \in Requests : LvCall(t, r)
    \/ \E t \in Callers : LvLock(t)
    \/ \E t \in Callers : LvRun(t)

\* Every external call returns, and `Lock()` on a mutex that stays free
\* returns: the Go scheduler runs every goroutine that can run. Both are
\* weak fairness; the number of calls is bounded, so no caller can be
\* overtaken for ever.
SpecLive ==
    /\ InitLive
    /\ [][NextLive]_vars
    /\ \A t \in Callers : WF_vars(LvRun(t)) /\ WF_vars(LvLock(t))

\* ------------------------------------------------------------ the process
\* The process ends once no call is in progress and the next invocation of
\* the CLI starts: a new importer, nothing loaded; the file stays.
Exit ==
    /\ proc < MaxProcs
    /\ procKind # "fresh"
    /\ \A t \in Callers : pc[t] \in {"idle", "initFailed", "initDone"}
    /\ proc' = proc + 1
    /\ procKind' = "fresh"
    /\ pc' = [t \in Callers |-> "idle"]
    /\ arg' = [t \in Callers |-> NoArg]
    /\ cur' = [t \in Callers |-> NoEntry]
    /\ sel' = [t \in Callers |-> {}]
    /\ last' = NoRet
    /\ cache' = [p \in Paths |-> NoEntry]
    /\ hostCheck' = [p \in Paths |-> NoCheck]
    /\ manifests' = <<>>
    /\ envLoaded' = FALSE
    /\ envCfg' = EmptyDoc
    /\ discoveries' = [p \in Paths |-> 0]
    /\ probes' = [p \in Paths |-> 0]
    /\ rendered' = {}
    /\ UNCHANGED <<cacheMu, hostCheckMu, saved, calls, prompts>>

Next ==
    \/ \E t \in Callers : ReadManifest(t) /\ UNCHANGED nonImporterVars
    \/ \E t \in Callers : CanImport(t) /\ UNCHANGED nonImporterVars
    \/ \E t \in Callers : InitFromApp(t) /\ UNCHANGED nonImporterVars
    \/ Exit /\ UNCHANGED nonImporterVars

Spec == Init /\ [][Next]_vars

\* ------------------------------------- generation for detected services
\* The arguments of a deferred call are evaluated when the defer statement
\* is executed: `defer i.console.StopSpinner(ctx, title,
\* input.GetStepResultFormat(err))` fixes the format from the value err has
\* at that statement.
Deferred(errAtDefer) == GetStepResultFormat(errAtDefer)

\* genProjectFile is entered (line 253): ShowSpinner, `var err error`, defer.
GStartProjectFile ==
    /\ gen.kind = "none"
    /\ stops = <<>>
    /\ gen' = [kind |-> "projectFile", at |-> 1, deferred |-> Deferred("nil"),
               err |-> "nil"]
    /\ UNCHANGED <<detectServices, config, stops>>
    /\ UNCHANGED nonGenVars

\* genProjectFile returned nil (line 254): ShowSpinner for ./infra and the
\* defer of line 261, where err is the nil genProjectFile returned.
GStartInfra ==
    /\ gen.kind = "generated"
    /\ gen' = [kind |-> "infra", at |-> 1, deferred |-> Deferred(gen.err),
               err |-> "nil"]
    /\ UNCHANGED <<detectServices, config, stops>>
    /\ UNCHANGED nonGenVars

\* The function returns `result`: the deferred StopSpinner runs with the
\* arguments fixed at the defer.
GReturned(result) ==
    /\ stops' = Append(stops, [step |-> gen.kind, format |-> gen.deferred,
                               result |-> result])
    /\ gen' = [kind |-> IF result # "nil" THEN "failed"
                        ELSE IF gen.kind = "projectFile" THEN "generated"
                        ELSE "done",
               at |-> 0, deferred |-> "none", err |-> result]

\* The call the step is at succeeds; after the last one the step returns nil.
GStepOk ==
    /\ gen.kind \in {"projectFile", "infra"}
    /\ config' = IF StepsOf(gen.kind)[gen.at] = "prjConfigFromDetect"
                 THEN PrjConfigFromDetect(detectServices)
                 ELSE config
    /\ IF gen.at < Len(StepsOf(gen.kind))
       THEN /\ gen' = [gen EXCEPT !.at = @ + 1]
            /\ UNCHANGED stops
       ELSE GReturned("nil")
    /\ UNCHANGED detectServices
    /\ UNCHANGED nonGenVars

\* The call the step is at returns an error, and so does the step.
GStepFails ==
    /\ gen.kind \in {"projectFile", "infra"}
    /\ GReturned(StepsOf(gen.kind)[gen.at])
    /\ UNCHANGED <<detectServices, config>>
    /\ UNCHANGED nonGenVars

\* Everything but the parts that stand apart is at rest.
FirstIdle ==
    /\ ImporterInit
    /\ saved = EmptyDoc
    /\ MergeIdle(EmptyTree)
    /\ SynthIdle(<<>>, "typeBits")
    /\ RenderIdle(NoTemplateData)
    /\ NoneWaiting
    /\ FrontIdle

InitGen ==
    /\ FirstIdle
    /\ \E ps \in DetectedServices : GenIdle(ps)
    /\ ConsoleIdle("none")
    /\ ProgressIdle
    /\ AuthIdle

NextGen ==
    \/ GStartProjectFile
    \/ GStartInfra
    \/ GStepOk
    \/ GStepFails

SpecGen == InitGen /\ [][NextGen]_vars

\* ------------------------------------------------------------ the console
\* yacspin: Start, Stop, Pause and Unpause act in the status they apply to
\* and return an error, which the console drops, in any other.
SpinnerStart(st) == IF st = "stopped" THEN "running" ELSE st
SpinnerStop(st) == IF st \in {"running", "paused"} THEN "stopped" ELSE st
SpinnerPause(st) == IF st = "running" THEN "paused" ELSE st
SpinnerUnpause(st) == IF st = "paused" THEN "running" ELSE st

\* `fmt.Fprintln(c.writer, msg)`
Fprintln(msg) == msg \o <<"nl">>

\* Fault variant: one byte written replaces the last byte only.
UpdateLastBytes_NoShift(b, msg) ==
    IF Len(msg) = 0 THEN b
    ELSE IF Len(msg) < 2 THEN <<b[1], msg[Len(msg)]>>
    ELSE <<msg[Len(msg) - 1], msg[Len(msg)]>>

\* updateLastBytes(msg)
UpdateLastBytes(b, msg) ==
    IF Len(msg) = 0 THEN b
    ELSE IF Len(msg) < 2 THEN <<b[2], msg[Len(msg)]>>
    ELSE <<msg[Len(msg) - 1], msg[Len(msg)]>>

\* println(msg): with the spinner running, StopSpinner(ctx, "", Step), the
\* line, `c.spinner.Start()`.
Println(msg) ==
    /\ out' = Fprintln(msg)
    /\ IF spinnerStatus = "running"
       THEN /\ spinnerCurrentTitle' = ""
            /\ spinnerStatus' = SpinnerStart(SpinnerStop(spinnerStatus))
       ELSE UNCHANGED <<spinnerCurrentTitle, spinnerStatus>>

\* The body of Message(ctx, message).
DoMessage(msg) ==
    /\ CASE formatter = "json" ->
              /\ out' = Fprintln(<<"ch">>)
              /\ UNCHANGED <<spinnerCurrentTitle, spinnerStatus>>
         [] formatter = "none" -> Println(msg)
         [] OTHER ->
              /\ out' = <<>>
              /\ UNCHANGED <<spinnerCurrentTitle, spinnerStatus>>
    /\ last2Byte' = UpdateLastBytes(last2Byte, msg \o <<"nl">>)

Message(msg) ==
    /\ ~interaction.active
    /\ DoMessage(msg)
    /\ lastOp' = Called("Message")
    /\ UNCHANGED <<formatter, lineTitle, shownTitle, interaction>>
    /\ UNCHANGED nonConsoleVars

MessageUxItem(msg) ==
    /\ ~interaction.active
    /\ IF formatter = "json"
       THEN /\ out' = Fprintln(<<"ch">>)
            /\ UNCHANGED <<spinnerCurrentTitle, spinnerStatus, last2Byte>>
       ELSE /\ Println(msg)
            /\ last2Byte' = UpdateLastBytes(last2Byte, msg \o <<"nl">>)
    /\ lastOp' = Called("MessageUxItem")
    /\ UNCHANGED <<formatter, lineTitle, shownTitle, interaction>>
    /\ UNCHANGED nonConsoleVars

EnsureBlankLine ==
    /\ ~interaction.active
    /\ IF last2Byte[1] = "nl" /\ last2Byte[2] = "nl"
       THEN /\ out' = <<>>
            /\ UNCHANGED <<spinnerCurrentTitle, spinnerStatus, last2Byte>>
       ELSE IF last2Byte[2] # "nl"
       THEN DoMessage(<<"nl">>)
       ELSE DoMessage(<<>>)
    /\ lastOp' = Called("EnsureBlankLine")
    /\ UNCHANGED <<formatter, lineTitle, shownTitle, interaction>>
    /\ UNCHANGED nonConsoleVars

\* ShowSpinner(ctx, title, format) with no previewer shown.
ShowSpinner(title) ==
    /\ ~interaction.active
    /\ shownTitle' = title
    /\ IF formatter = "json"
       THEN UNCHANGED <<spinnerCurrentTitle, lineTitle, spinnerStatus>>
       ELSE /\ spinnerCurrentTitle' = title
            /\ lineTitle' = title
            /\ spinnerStatus' = SpinnerStart(spinnerStatus)
    /\ lastOp' = Called("ShowSpinner")
    /\ out' = <<>>
    /\ UNCHANGED <<formatter, last2Byte, interaction>>
    /\ UNCHANGED nonConsoleVars

StopSpinner ==
    /\ ~interaction.active
    /\ IF formatter = "json" \/ spinnerStatus = "stopped"
       THEN UNCHANGED <<spinnerCurrentTitle, spinnerStatus>>
       ELSE /\ spinnerCurrentTitle' = ""
            /\ spinnerStatus' = SpinnerStop(spinnerStatus)
    /\ lastOp' = Called("StopSpinner")
    /\ out' = <<>>
    /\ UNCHANGED <<formatter, lineTitle, shownTitle, last2Byte, interaction>>
    /\ UNCHANGED nonConsoleVars

\* handleResize(width), from the goroutine that watches the width.
HandleResize ==
    /\ spinnerStatus = "running"
    /\ lineTitle' = spinnerCurrentTitle
    /\ UNCHANGED <<formatter, spinnerStatus, spinnerCurrentTitle, shownTitle,
                   last2Byte, interaction, lastOp, out>>
    /\ UNCHANGED nonConsoleVars

PromptKinds == {"Prompt", "Select", "MultiSelect", "Confirm"}

\* Fault variant: the spinner is resumed only when the prompt succeeded.
AfterInteraction_OnSuccess(resume, st, err) ==
    IF resume /\ err = "nil" THEN SpinnerUnpause(st) ELSE st

\* The deferred function of doInteraction, registered when the spinner was
\* paused: it runs however promptFn returns.
AfterInteraction(resume, st, err) ==
    IF resume THEN SpinnerUnpause(st) ELSE st

\* Prompt, Select, MultiSelect or Confirm enters doInteraction and the
\* asker is waiting for the user.
DoInteraction(kind) ==
    /\ ~interaction.active
    /\ interaction' = [active |-> TRUE, kind |-> kind, before |-> spinnerStatus,
                       resume |-> spinnerStatus = "running"]
    /\ spinnerStatus' = IF spinnerStatus = "running"
                        THEN SpinnerPause(spinnerStatus)
                        ELSE spinnerStatus
    /\ lastOp' = Called(kind)
    /\ out' = <<>>
    /\ UNCHANGED <<formatter, spinnerCurrentTitle, lineTitle, shownTitle, last2Byte>>
    /\ UNCHANGED nonConsoleVars

\* The asker returns, with an answer or with an error.
InteractionReturns(err) ==
    /\ interaction.active
    /\ spinnerStatus' = AfterInteraction(interaction.resume, spinnerStatus, err)
    /\ last2Byte' = IF err = "nil" /\ interaction.kind # "MultiSelect"
                    THEN UpdateLastBytes(last2Byte, <<"ch", "nl">>)
                    ELSE last2Byte
    /\ interaction' = NoInteraction
    /\ UNCHANGED <<formatter, spinnerCurrentTitle, lineTitle, shownTitle, lastOp, out>>
    /\ UNCHANGED nonConsoleVars

InitConsole ==
    /\ FirstIdle
    /\ GenIdle(<<>>)
    /\ \E f \in FormatterKinds : ConsoleIdle(f)
    /\ ProgressIdle
    /\ AuthIdle

NextConsole ==
    \/ \E m \in Messages : Message(m)
    \/ \E m \in Messages : MessageUxItem(m)
    \/ EnsureBlankLine
    \/ \E title \in Titles : ShowSpinner(title)
    \/ StopSpinner
    \/ HandleResize
    \/ \E kind \in PromptKinds : DoInteraction(kind)
    \/ \E err \in {"nil", "err"} : InteractionReturns(err)

SpecConsole == InitConsole /\ [][NextConsole]_vars

\* --------------------------------------------------- progress renderers
\* ShowSpinner, ShowPreviewer and StopPreviewer called from goroutines
\* that run at the same time, one statement on the shared fields at a
\* step. ShowSpinner and ShowPreviewer hold showProgressMu; StopPreviewer
\* takes no lock.
At(g, op, at) == ppc[g] = [op |-> op, at |-> at]
Goto(g, op, at) == ppc' = [ppc EXCEPT ![g] = [op |-> op, at |-> at]]
Return(g) == ppc' = [ppc EXCEPT ![g] = AtRest]

\* ShowSpinner: `c.showProgressMu.Lock()` (line 462).
PShowSpinnerLock(g) ==
    /\ ppc[g] = AtRest
    /\ LockFree(showProgressMu)
    /\ showProgressMu' = g
    /\ Goto(g, "ShowSpinner", "check")
    /\ UNCHANGED <<previewer, writer, stoppedLogs, nilCalls, logs>>
    /\ UNCHANGED <<nonProgressVars, consoleVars>>

\* `if c.previewer != nil` (line 470) finds a previewer.
PShowSpinnerSeesPreviewer(g) ==
    /\ At(g, "ShowSpinner", "check")
    /\ previewer # NoPreviewer
    /\ Goto(g, "ShowSpinner", "header")
    /\ UNCHANGED <<showProgressMu, previewer, writer, stoppedLogs, nilCalls, logs>>
    /\ UNCHANGED <<nonProgressVars, consoleVars>>

\* `c.previewer.Header(...)` (line 472) on what the field holds now, then
\* the return and the deferred Unlock.
PShowSpinnerHeader(g) ==
    /\ At(g, "ShowSpinner", "header")
    /\ nilCalls' = IF previewer = NoPreviewer
                   THEN nilCalls \cup {[by |-> "ShowSpinner", method |-> "Header"]}
                   ELSE nilCalls
    /\ showProgressMu' = Unlock(showProgressMu)
    /\ Return(g)
    /\ UNCHANGED <<previewer, writer, stoppedLogs, logs>>
    /\ UNCHANGED <<nonProgressVars, consoleVars>>

\* No previewer: the title is set and the spinner started (lines 476-486).
PShowSpinnerStarts(g, title) ==
    /\ At(g, "ShowSpinner", "check")
    /\ previewer = NoPreviewer
    /\ shownTitle' = title
    /\ spinnerCurrentTitle' = title
    /\ lineTitle' = title
    /\ spinnerStatus' = SpinnerStart(spinnerStatus)
    /\ showProgressMu' = Unlock(showProgressMu)
    /\ Return(g)
    /\ UNCHANGED <<previewer, writer, stoppedLogs, nilCalls, logs>>
    /\ UNCHANGED <<formatter, last2Byte, interaction, lastOp, out>>
    /\ UNCHANGED nonProgressVars

\* ShowPreviewer: the lock and `c.spinner.Pause()` (lines 392-397).
PShowPreviewerLock(g) ==
    /\ ppc[g] = AtRest
    /\ logs < MaxPreviewers
    /\ LockFree(showProgressMu)
    /\ showProgressMu' = g
    /\ spinnerStatus' = SpinnerPause(spinnerStatus)
    /\ Goto(g, "ShowPreviewer", "new")
    /\ UNCHANGED <<previewer, writer, stoppedLogs, nilCalls, logs>>
    /\ UNCHANGED <<formatter, spinnerCurrentTitle, lineTitle, shownTitle,
                   last2Byte, interaction, lastOp, out>>
    /\ UNCHANGED nonProgressVars

\* `c.previewer = NewProgressLog(...)`, `c.previewer.Start()` (403-404).
PShowPreviewerNew(g) ==
    /\ At(g, "ShowPreviewer", "new")
    /\ logs' = logs + 1
    /\ previewer' = logs + 1
    /\ Goto(g, "ShowPreviewer", "writer")
    /\ UNCHANGED <<showProgressMu, writer, stoppedLogs, nilCalls>>
    /\ UNCHANGED <<nonProgressVars, consoleVars>>

\* `c.writer = c.previewer` (line 405), the return and the Unlock.
PShowPreviewerWriter(g) ==
    /\ At(g, "ShowPreviewer", "writer")
    /\ writer' = PreviewerWriter(previewer)
    /\ showProgressMu' = Unlock(showProgressMu)
    /\ Return(g)
    /\ UNCHANGED <<previewer, stoppedLogs, nilCalls, logs>>
    /\ UNCHANGED <<nonProgressVars, consoleVars>>

\* StopPreviewer, called while a previewer is shown:
\* `c.previewer.Stop(keepLogs)` (line 412).
PStopPreviewerStop(g) ==
    /\ ppc[g] = AtRest
    /\ previewer # NoPreviewer
    /\ stoppedLogs' = stoppedLogs \cup {previewer}
    /\ Goto(g, "StopPreviewer", "nil")
    /\ UNCHANGED <<showProgressMu, previewer, writer, nilCalls, logs>>
    /\ UNCHANGED <<nonProgressVars, consoleVars>>

\* `c.previewer = nil` (line 413).
PStopPreviewerNil(g) ==
    /\ At(g, "StopPreviewer", "nil")
    /\ previewer' = NoPreviewer
    /\ Goto(g, "StopPreviewer", "writer")
    /\ UNCHANGED <<showProgressMu, writer, stoppedLogs, nilCalls, logs>>
    /\ UNCHANGED <<nonProgressVars, consoleVars>>

\* `c.writer = c.defaultWriter`, `c.spinner.Unpause()` (lines 414-416).
PStopPreviewerWriter(g) ==
    /\ At(g, "StopPreviewer", "writer")
    /\ writer' = DefaultWriter
    /\ spinnerStatus' = SpinnerUnpause(spinnerStatus)
    /\ Return(g)
    /\ UNCHANGED <<showProgressMu, previewer, stoppedLogs, nilCalls, logs>>
    /\ UNCHANGED <<formatter, spinnerCurrentTitle, lineTitle, shownTitle,
                   last2Byte, interaction, lastOp, out>>
    /\ UNCHANGED nonProgressVars

InitProgress ==
    /\ FirstIdle
    /\ GenIdle(<<>>)
    /\ ConsoleIdle("none")
    /\ ProgressIdle
    /\ AuthIdle

NextProgress ==
    \/ \E g \in Goroutines : PShowSpinnerLock(g)
    \/ \E g \in Goroutines : PShowSpinnerSeesPreviewer(g)
    \/ \E g \in Goroutines : PShowSpinnerHeader(g)
    \/ \E g \in Goroutines, title \in Titles : PShowSpinnerStarts(g, title)
    \/ \E g \in Goroutines : PShowPreviewerLock(g)
    \/ \E g \in Goroutines : PShowPreviewerNew(g)
    \/ \E g \in Goroutines : PShowPreviewerWriter(g)
    \/ \E g \in Goroutines : PStopPreviewerStop(g)
    \/ \E g \in Goroutines : PStopPreviewerNil(g)
    \/ \E g \in Goroutines : PStopPreviewerWriter(g)

SpecProgress == InitProgress /\ [][NextProgress]_vars

\* ----------------------------------------------------------------- oneauth
\* start(clientID) called from goroutines of one process; `started` is an
\* atomic flag, the calls between its swaps are steps of their own.
InStart == Cardinality({g \in Goroutines : apc[g] # "rest"})

Returns(g, ret) ==
    /\ startRet' = [ret |-> ret, by |-> g]
    /\ starts' = starts + 1
    /\ apc' = [apc EXCEPT ![g] = "rest"]

\* `started.CompareAndSwap(false, true)` (line 211) swaps.
AStartFirst(g) ==
    /\ apc[g] = "rest"
    /\ starts + InStart < MaxStarts
    /\ ~started
    /\ started' = TRUE
    /\ apc' = [apc EXCEPT ![g] = "loadDLL"]
    /\ UNCHANGED <<bridge, running, startRet, starts>>
    /\ UNCHANGED nonAuthVars

\* The flag is set already: the if is skipped, `return nil` (line 237).
AStartAlready(g) ==
    /\ apc[g] = "rest"
    /\ starts + InStart < MaxStarts
    /\ started
    /\ Returns(g, "nil")
    /\ UNCHANGED <<started, bridge, running>>
    /\ UNCHANGED nonAuthVars

\* loadDLL returns an error: `return err` (lines 213-215). The library is
\* loaded (bridge set) if the error is that of a FindProc.
ALoadFails(g, loaded) ==
    /\ apc[g] = "loadDLL"
    /\ ~bridge
    /\ bridge' = loaded
    /\ Returns(g, "err")
    /\ UNCHANGED <<started, running>>
    /\ UNCHANGED nonAuthVars

\* loadDLL returns nil; startup is called (line 222).
ALoaded(g) ==
    /\ apc[g] = "loadDLL"
    /\ bridge' = TRUE
    /\ apc' = [apc EXCEPT ![g] = "startup"]
    /\ UNCHANGED <<started, running, startRet, starts>>
    /\ UNCHANGED nonAuthVars

\* startup reports a failure: `started.CompareAndSwap(true, false)` and
\* the error (lines 229-235).
AStartupFails(g) ==
    /\ apc[g] = "startup"
    /\ started' = FALSE
    /\ Returns(g, "err")
    /\ UNCHANGED <<bridge, running>>
    /\ UNCHANGED nonAuthVars

\* startup succeeds: `return nil`.
AStartupOk(g) ==
    /\ apc[g] = "startup"
    /\ running' = TRUE
    /\ Returns(g, "nil")
    /\ UNCHANGED <<started, bridge>>
    /\ UNCHANGED nonAuthVars

\* Shutdown(): `if started.CompareAndSwap(true, false) { shutdown.Call() }`.
AShutdown ==
    /\ started
    /\ started' = FALSE
    /\ running' = FALSE
    /\ UNCHANGED <<bridge, startRet, starts, apc>>
    /\ UNCHANGED nonAuthVars

InitAuth ==
    /\ FirstIdle
    /\ GenIdle(<<>>)
    /\ ConsoleIdle("none")
    /\ ProgressIdle
    /\ AuthIdle

NextAuth ==
    \/ \E g \in Goroutines : AStartFirst(g)
    \/ \E g \in Goroutines : AStartAlready(g)
    \/ \E g \in Goroutines, loaded \in BOOLEAN : ALoadFails(g, loaded)
    \/ \E g \in Goroutines : ALoaded(g)
    \/ \E g \in Goroutines : AStartupFails(g)
    \/ \E g \in Goroutines : AStartupOk(g)
    \/ AShutdown

SpecAuth == InitAuth /\ [][NextAuth]_vars

\* ============================================================ properties
\* The states of a cache miss: discovery, selection, persistence.
MissStates == {"discover", "select", "persist"}

InMiss(t) == pc[t] \in MissStates

\* The bindings of the resources of ns, as <<resource, binding>> pairs.
BindingsOfAll(ns) == UNION {{<<r, b>> : b \in Topology[r]} : r \in ns \cap ResourceNames}

C3_KeysIndependent ==
    [][ /\ last'.kind = "model" => manifests'[last'.id].path = last'.path
        /\ (last'.kind = "err" /\ proc' = proc) => cache' = cache
        /\ \A t \in Callers : InMiss(t)
               => \A p \in Paths : p # arg[t].path => cache'[p] = cache[p]
      ]_vars

\* p1's discovery failed (no prompt was ever issued, p1 has no entry and no
\* miss in flight) and a call for p2 returns p2's model.
C3_Witness ==
    /\ proc = 1
    /\ last.kind = "model" /\ last.path = "p2"
    /\ discoveries["p1"] >= 1 /\ cache["p1"] = NoEntry
    /\ \A t \in Callers : ~InMiss(t)
    /\ prompts = [n \in Names |-> 0]

\* ---------------------------------------------------------------- C4
\* C4: one lock serializes the cache. A caller inside a miss (discovery,
\* selection, persistence) holds cacheMu, so at most one is inside; and a
\* readManifest call returns only with the lock free, so no hit is served
\* while a miss is in progress.
C4_MissHoldsLock ==
    /\ \A t \in Callers : InMiss(t) => cacheMu = t
    /\ cacheMu # NoHolder => InMiss(cacheMu)
    /\ last.kind \in {"model", "err"} => cacheMu = NoHolder

\* A miss has reached persistence with the lock held, after other calls.
C4_Witness ==
    \E t \in Callers : pc[t] = "persist" /\ cacheMu = t /\ calls >= 2

\* ---------------------------------------------------------------- C5
\* C5: within a process an entry is never replaced or invalidated, and a
\* hit only returns it: no discovery, no prompt, no configuration write and
\* no change of any manifest.
C5_EntryIsFinal ==
    [][ /\ \A p \in Paths : (cache[p] # NoEntry /\ proc' = proc)
               => /\ cache'[p] = cache[p]
                  /\ manifests'[cache[p]] = manifests[cache[p]]
                  /\ discoveries'[p] = discoveries[p]
        /\ (last'.kind = "model" /\ pc' = pc)
               => /\ last'.id = cache[last'.path]
                  /\ UNCHANGED <<cache, manifests, discoveries, prompts,
                                 envCfg, saved, envLoaded>>
      ]_vars

\* A hit on an entry whose manifest carries a selected exposure.
C5_Witness ==
    /\ last.kind = "model"
    /\ discoveries[last.path] = 1
    /\ calls = 3
    /\ manifests[last.id].external # {}
    /\ \A t \in Callers : pc[t] = "idle"

\* ---------------------------------------------------------------- C6
\* C6: the two caches are independent, each behind its own lock. A step of
\* CanImport leaves the manifest cache, its lock and the manifests alone; a
\* step of readManifest leaves the probe results and their lock alone; no
\* caller holds both locks; and whether CanImport can start or finish
\* depends on hostCheckMu only, so it completes while a miss for the same
\* path holds cacheMu.
C6_CachesIndependent ==
    /\ [][ /\ ((probes' # probes \/ hostCheck' # hostCheck \/ last'.kind = "bool")
                 /\ proc' = proc)
               => UNCHANGED <<cache, cacheMu, manifests, discoveries>>
           /\ ((discoveries' # discoveries \/ cache' # cache
                 \/ cacheMu' # cacheMu \/ last'.kind \in {"model", "err"})
                 /\ proc' = proc)
               => UNCHANGED <<hostCheck, hostCheckMu, probes>>
           /\ \A t \in Callers : ~(cacheMu' = t /\ hostCheckMu' = t)
         ]_vars
    /\ [](\A t \in Callers :
            /\ (pc[t] = "idle" /\ procKind \in {"fresh", "run"}
                  /\ calls < MaxCalls /\ hostCheckMu = NoHolder)
                   => \A p \in Paths : ENABLED (CiHit(t, p) \/ CiMiss(t, p))
            /\ pc[t] = "probe" => ENABLED CiProbeFails(t))

\* CanImport has just returned for p1 while a miss for p1 is in flight.
C6_Witness ==
    /\ last.kind = "bool" /\ last.path = "p1"
    /\ \E t \in Callers : pc[t] = "discover" /\ arg[t].path = "p1" /\ cacheMu = t

\* ---------------------------------------------------------------- C7
\* The names a persisted value lists: the string elements of the list.
StoredNames(v) == {e.val : e \in {x \in v.elems : x.str}}

\* C7: when the environment's file holds a decision for the service and
\* readManifest reads the environment, the call issues no prompt and writes
\* nothing, and the manifest it returns has every binding of every listed
\* resource external.
C7_StoredDecisionApplied ==
    [][ \A t \in Callers :
          (pc[t] = "discover" /\ pc'[t] # "discover"
             /\ HasKey(saved, arg[t].name) /\ envLoaded')
            => /\ pc'[t] = "idle"
               /\ prompts' = prompts
               /\ saved' = saved
               /\ last'.kind = "model"
                    => BindingsOfAll(StoredNames(saved[arg[t].name]))
                          \subseteq manifests'[last'.id].external
      ]_vars

\* ---------------------------------------------------------------- C8
\* A persisted value some part of which cannot be used.
Malformed(v) ==
    /\ v.shape # "absent"
    /\ \/ v.shape # "ifaceSlice"
       \/ \E e \in v.elems : ~e.str \/ e.val \notin ResourceNames

\* The names of a persisted value that can be used.
UsableNames(v) ==
    IF v.shape = "ifaceSlice" THEN StoredNames(v) \cap ResourceNames ELSE {}

C9_NoRenderOnUnsavedDecision ==
    /\ (last.kind = "err" /\ last.op = "persist") => cache[last.path] = NoEntry
    /\ last.kind \in {"model", "generated"}
          => (HasKey(envCfg, last.name) => HasKey(saved, last.name))

\* ---------------------------------------------------------------- C10
\* A value that a saved selection left in the file (the file's initial
\* contents are none of these).
SavedSelection(n) ==
    \E ns \in Selections : saved[n] = IfaceSlice({StrElem(r) : r \in ns})

\* C10 (as stated): once a selection has been saved for the environment, no
\* prompt is issued again, in this or a later process.
C10_OncePerEnvironment ==
    [][ (\E n \in Names : SavedSelection(n)) => prompts' = prompts ]_vars

\* C10 (amended): once per service name. A successful selection is saved
\* under the name of the service it was made for, and while the file holds
\* a value under a service's name no prompt is issued for that service, in
\* this or a later process.
C10_OncePerService ==
    [][ /\ \A n \in Names : HasKey(saved, n) => prompts'[n] = prompts[n]
        /\ \A t \in Callers :
             (pc[t] \in {"persist", "initPersist"}
                /\ last'.kind \in {"model", "generated"})
               => saved'[arg[t].name] = IfaceSlice({StrElem(r) : r \in sel[t]})
      ]_vars

\* A later process serves "api" from the saved selection: one prompt ever.
C10_Witness ==
    /\ proc = 2 /\ calls = 2
    /\ last.kind = "model" /\ last.name = "api"
    /\ prompts = [n \in Names |-> IF n = "api" THEN 1 ELSE 0]
    /\ SavedSelection("api")

C12_AbsentDecisionPrompts ==
    [][ \A t \in Callers :
          (pc[t] = "discover" /\ pc'[t] # "discover"
             /\ (~envLoaded' \/ ~HasKey(LoadedCfg, arg[t].name)))
            => \/ last'.kind = "err"
               \/ /\ pc'[t] = "select"
                  /\ prompts'[arg[t].name] = prompts[arg[t].name] + 1
                  /\ cache' = cache
      ]_vars

C14_SelectorBeforeSynthesizer ==
    [][ /\ rendered' \subseteq DOMAIN manifests'
        /\ proc' = proc
             => \A i \in rendered : i \in rendered' /\ manifests'[i] = manifests[i]
        /\ \A i \in DOMAIN manifests \cap DOMAIN manifests' :
             manifests'[i].external # manifests[i].external
               => /\ i \notin rendered'
                  /\ manifests[i].external = {}
                  /\ \E t \in Callers :
                        pc[t] = "select" /\ cur[t] = i /\ cacheMu = t
        /\ \A t \in Callers :
             /\ pc'[t] \in {"select", "persist", "initSelect", "initPersist"}
                  => cur'[t] \notin rendered'
             /\ (pc[t] \in {"persist", "initPersist"} /\ rendered' # rendered)
                  => /\ rendered' = rendered \cup {cur[t]}
                     /\ saved'[arg[t].name] = IfaceSlice({StrElem(r) : r \in sel[t]})
      ]_vars

\* A manifest whose flags the selector wrote is with the synthesizer, and a
\* later call for its path has been served the same manifest.
C14_Witness ==
    /\ calls = 3
    /\ last.kind = "model" /\ last.id \in rendered
    /\ manifests[last.id].external # {}
    /\ prompts[last.name] = 0
    /\ \E n \in Names : prompts[n] = 1 /\ SavedSelection(n)

\* ---------------------------------------------------------------- C15
\* C15: when InitFromApp invokes GenerateProjectArtifacts, the manifest it
\* passes has exactly the bindings of the selected (and saved) resources
\* external.
C15_InitRendersSelection ==
    [][ \A t \in Callers :
          (pc[t] = "initPersist" /\ last'.kind = "generated")
            => /\ last'.id \in rendered'
               /\ StoredNames(saved'[arg[t].name]) = sel[t]
               /\ manifests'[last'.id].external = BindingsOfAll(sel[t])
      ]_vars

\* ---------------------------------------------------------------- C16
\* C16: InitFromApp creates or changes a file of the project directory
\* only by copying it from the temporary directory, after the duplicates
\* were determined: in any step that changes a destination file the copy is
\* in progress, the directory exists, the file is staged with the bytes
\* that arrive, and it is not one of the files to skip.
C16_OnlyCopyWritesDestination ==
    [][ \A p \in FilePaths :
          dest'[p] # dest[p]
            => /\ mpc = "copy"
               /\ tmpDir
               /\ stage[p] = dest'[p]
               /\ ~Skipped(skip, p)
      ]_vars

C19_NoTempDirLeftBehind ==
    /\ leaked = 0
    /\ mpc = "idle" => ~tmpDir

\* ---------------------------------------------------------------- C20
\* The operation running now repeats the merge that returned last, which
\* succeeded.
RepeatsMerge ==
    /\ lastRun.result = "ok"
    /\ branch \in {"apphost", "detect"}
    /\ branch = lastRun.branch

C21_OrderIndependent ==
    \A i, j \in DOMAIN results :
        (/\ results[i].ok
         /\ results[j].ok
         /\ results[i].order # results[j].order)
            => results[i].tree = results[j].tree

\* C22: synthesis is deterministic: every two SynthAllInfrastructure calls on
\* the same manifest, with the same exposure decisions, that return a tree
\* return the same tree.
C22_Deterministic ==
    \A i \in DOMAIN results : \A j \in DOMAIN results :
        (i < j /\ results[i].ok /\ results[j].ok)
            => \A p \in SynthPaths : results[i].tree[p] = results[j].tree[p]

\* The pairs of distinct projects whose containerApp.tmpl.yaml has the same
\* path.
Colliding(pp) ==
    {ab \in (DOMAIN pp) \X (DOMAIN pp) :
        /\ ab[1] # ab[2]
        /\ ManifestPath(pp[ab[1]]) = ManifestPath(pp[ab[2]])}

\* C23: two distinct projects never collapse to one artifact: a call on a
\* manifest with two projects that map to the same output path does not
\* return a tree: unless it stops on another error first, it fails with a
\* collision error naming both.
C23_CollisionFailsSynthesis ==
    \A i \in DOMAIN results :
        (/\ Colliding(projectPaths) # {}
         /\ results[i].err.op \notin {"infra", "containerApp"})
            => /\ ~results[i].ok
               /\ results[i].err.op = "collision"
               /\ \E ab \in Colliding(projectPaths) :
                    results[i].err.names = {ab[1], ab[2]}

\* How often a declaration occurs in a section of the rendering.
Count(section, Is(_)) == Cardinality({i \in DOMAIN section : Is(section[i])})

\* The declarations that belong to a dependency kind: its parameters, its
\* secret, its environment entries, its resource and its service binding.
DependencyKinds == {"DbCosmosMongo", "DbPostgres", "DbRedis"}

DeclsOf(kind) ==
    CASE kind = "DbCosmosMongo" ->
           [ params |-> {"cosmosDbConnectionString"},
             secrets |-> {"azure-cosmos-connection-string"},
             env |-> {<<"AZURE_COSMOS_MONGODB_CONNECTION_STRING">>},
             resources |-> {} ]
      [] kind = "DbPostgres" ->
           [ params |-> {"databaseHost", "databaseUser", "databaseName",
                         "databasePassword"},
             secrets |-> {"db-pass"},
             env |-> {<<"DB_HOST">>, <<"DB_USER">>, <<"DB_NAME">>,
                      <<"DB_PASS">>, <<"DB_PORT">>},
             resources |-> {} ]
      [] OTHER ->
           [ params |-> {"redisName"}, secrets |-> {}, env |-> {},
             resources |-> {"redis"} ]

\* C25: conditional emission: in the rendered template every declaration of a
\* dependency kind (parameter, secret, environment entry, resource, service
\* binding) occurs exactly once if the service declares the dependency and
\* not at all if it does not.
C25_ConditionalEmission ==
    bicep.rendered =>
        \A kind \in DependencyKinds :
            LET n == IF tmplData[kind] THEN 1 ELSE 0
                ds == DeclsOf(kind)
            IN /\ \A x \in ds.params :
                    Count(bicep.params, LAMBDA e : e.name = x) = n
               /\ \A x \in ds.secrets :
                    Count(bicep.secrets, LAMBDA e : e.name = x) = n
               /\ \A x \in ds.env :
                    Count(bicep.env, LAMBDA e : e.name = x) = n
               /\ \A x \in ds.resources :
                    /\ Count(bicep.resources, LAMBDA e : e = x) = n
                    /\ Count(bicep.serviceBinds, LAMBDA e : e = x) = n

\* A service with two of the three dependencies has been rendered.
C25_Witness ==
    /\ bicep.rendered
    /\ tmplData.DbCosmosMongo
    /\ tmplData.DbPostgres
    /\ ~tmplData.DbRedis
    /\ Len(bicep.secrets) = 3

\* The values that must stay secret: the secure parameters of the
\* dependencies and the value of a secret application setting.
SecretValues == {"cosmosDbConnectionString", "databasePassword", "secret.value"}

\* C26: secrets are never rendered as plain environment values: no entry of
\* the env block has a secret value, every secret value that is declared is
\* used in the secrets section, every secret-valued environment entry is a
\* secretRef, and every secretRef of the env block names a secret declared in
\* the secrets section of the same rendering.
C26_SecretsOnlyByReference ==
    bicep.rendered =>
        /\ \A i \in DOMAIN bicep.env :
              /\ bicep.env[i].value.ref \notin SecretValues
              /\ (bicep.env[i].secretRef # NoRef
                    => /\ bicep.env[i].value = NoVal
                       /\ \E j \in DOMAIN bicep.secrets :
                            bicep.secrets[j].name = bicep.env[i].secretRef)
        /\ \A i \in DOMAIN bicep.params :
              bicep.params[i].name \in SecretValues
                 => \E j \in DOMAIN bicep.secrets :
                       bicep.secrets[j].value.ref = bicep.params[i].name
        /\ \A j \in DOMAIN bicep.secrets :
              /\ bicep.secrets[j].value.ref \in SecretValues
              /\ \E i \in DOMAIN bicep.env :
                    bicep.env[i].secretRef = bicep.secrets[j].name

\* A service with a database password and a connection string has been
\* rendered: both are in the env block, by reference.
C26_Witness ==
    /\ bicep.rendered
    /\ tmplData.DbPostgres
    /\ tmplData.DbCosmosMongo
    /\ \E i \in DOMAIN bicep.env : bicep.env[i].secretRef = "db-pass"
    /\ \E i \in DOMAIN bicep.env :
          bicep.env[i].secretRef = "azure-cosmos-connection-string"

\* C27: a console error or cancellation during exposure selection is a fatal
\* abort that leaves no trace: the step that ends the selection without a
\* choice returns the error and ends the call (no second prompt), writes no
\* exposedServices key, does not save the environment, stores no cache entry
\* and hands nothing to the synthesizer.
C27_AbortLeavesNoTrace ==
    [][ \A t \in Callers :
          (\/ pc[t] = "select" /\ pc'[t] \notin {"select", "persist"}
           \/ pc[t] = "initSelect" /\ pc'[t] \notin {"initSelect", "initPersist"})
             => /\ last' = RetErr("select", arg[t])
                /\ pc'[t] \in {"idle", "initFailed"}
                /\ prompts' = prompts
                /\ envCfg' = envCfg
                /\ ~HasKey(envCfg', arg[t].name)
                /\ saved' = saved
                /\ cache' = cache
                /\ ~Has(cache', arg[t].path)
                /\ rendered' = rendered
                /\ cacheMu' = NoHolder ]_vars

\* readManifest has just returned the error of a cancelled prompt.
C27_Witness ==
    /\ last.kind = "err"
    /\ last.op = "select"
    /\ procKind = "run"
    /\ prompts[last.name] > 0
    /\ cacheMu = NoHolder

\* The cache miss or the probe of caller t has just ended with an error.
FailedNow(t) ==
    /\ pc[t] \in MissStates \cup {"probe"}
    /\ pc'[t] = "idle"
    /\ \/ last'.kind = "err"
       \/ last'.kind = "bool" /\ last'.err # 0

\* C28, first part: a cache miss that is aborted or fails, and a probe that
\* fails, release the lock they hold.
C28_FailureReleasesLock ==
    [][ \A t \in Callers :
          FailedNow(t) => (cacheMu' # t /\ hostCheckMu' # t) ]_vars

\* C28: every caller blocked on a lock eventually acquires it and returns,
\* whatever the calls before it did (returned a value, failed or were
\* cancelled), provided each external call terminates.
C28_BlockedCallerReturns ==
    \A t \in Callers :
        (waiting[t] # NoRequest) ~> (waiting[t] = NoRequest /\ pc[t] = "idle")

\* A cache miss has just failed while another caller was blocked on the
\* lock it held.
C28_Witness ==
    /\ last.kind = "err"
    /\ cacheMu = NoHolder
    /\ \E t \in Callers :
          waiting[t].op = "readManifest" /\ waiting[t].path = last.path

C30_SingleAppHostOnly ==
    [][ (/\ front.phase = "filtered"
         /\ \E p \in front.projects : p.appHost
         /\ Cardinality(front.projects) # 1
         /\ front' # front)
            => /\ front'.phase = "failed"
               /\ front'.err = "single"
               /\ front.done = {}
               /\ dest' = front.dest0
               /\ ~tmpDir'
               /\ mpc' = "idle"
               /\ runs' = runs
      ]_vars

\* InitFromApp has just refused a directory with more than one project left
\* next to an app host.
C30_Witness ==
    /\ front.phase = "failed"
    /\ front.err = "single"
    /\ mpc = "idle"

\* ---------------------------------------------------------------- C31
\* The names an exposure decision applied in this step carries: the names
\* read from the stored value when the manifest is created from it, the
\* names the prompt returned when a selection is applied.
AppliedNames ==
    UNION { IF pc[t] = "discover" /\ pc'[t] = "idle" /\ HasKey(LoadedCfg, arg[t].name)
            THEN DecisionNames(LoadedCfg[arg[t].name])
            ELSE IF pc[t] = "select" /\ pc'[t] = "persist"
            THEN sel'[t]
            ELSE {} : t \in Callers }

\* A manifest before the step: as it was, or as discovery returned it when
\* the step created it.
Before(id) ==
    IF id \in DOMAIN manifests THEN manifests[id]
    ELSE NewManifest(manifests'[id].path)

\* C31: applying an exposure decision only ever turns External from false
\* to true, and only on bindings the named resources have: no step removes
\* a binding from the external ones of a manifest, every binding that
\* becomes external belongs to a resource the applied decision names, and
\* the rest of the manifest (its path) is as before.
C31_ExposureOnlySetsNamed ==
    [][ \A id \in DOMAIN manifests' :
          /\ Before(id).external \subseteq manifests'[id].external
          /\ manifests'[id].external \ Before(id).external
                \subseteq BindingsOfAll(AppliedNames)
          /\ manifests'[id].path = Before(id).path
      ]_vars

\* A stored decision naming admin was applied to a manifest and a prompt's
\* selection of web to another: each has the named resource's bindings
\* external and the other resource's bindings as discovered.
C31_Witness ==
    \E i, j \in DOMAIN manifests :
        /\ manifests[i].external = {<<"admin", "http">>}
        /\ manifests[j].external = {<<"web", "http">>, <<"web", "https">>}

\* ---------------------------------------------------------------- C32
\* C32: the cache is keyed by the path alone, the decision by the service
\* name. A readManifest for a service whose path has an entry never starts
\* a discovery, whatever the name of the service; it returns the stored
\* manifest as it is, with the exposure the storing call gave it, and
\* neither loads the environment, nor prompts, nor writes the configuration
\* in memory or on file.
C32_CacheKeyedByPathOnly ==
    [][ \A s \in SvcConfigs :
          /\ (\E t \in Callers : pc[t] = "idle" /\ pc'[t] = "discover" /\ arg'[t] = s)
                => cache[s.path] = NoEntry
          /\ (calls' = calls + 1 /\ pc' = pc /\ cache[s.path] # NoEntry
                /\ last' = RetModel(cache[s.path], s))
                => /\ manifests' = manifests
                   /\ cache' = cache
                   /\ envLoaded' = envLoaded
                   /\ envCfg' = envCfg
                   /\ saved' = saved
                   /\ prompts' = prompts
                   /\ discoveries' = discoveries
      ]_vars

\* app selected web and stored the manifest of p1; api, which has the same
\* path, was then handed that manifest: web is external in it, api was
\* never prompted and has no value under its own key.
C32_Witness ==
    /\ last = RetModel(cache["p1"], [name |-> "api", path |-> "p1"])
    /\ manifests[last.id].external = {<<"web", "http">>, <<"web", "https">>}
    /\ prompts["app"] = 1 /\ prompts["api"] = 0
    /\ saved["app"].shape # "absent" /\ saved["api"].shape = "absent"
    /\ envCfg["api"].shape = "absent"
    /\ discoveries["p1"] = 1

\* ---------------------------------------------------------------- C35
\* The references of the rendering into the ingress of the container app.
IngressRefs ==
    {i \in DOMAIN bicep.outputs :
        bicep.outputs[i].ref = "app.properties.configuration.ingress.fqdn"}

\* C35: the rendering refers to app.properties.configuration.ingress only
\* when it has the ingress block: for every port, Port = 0 included, an
\* output that reads a property of the ingress comes with the block.
C35_IngressReferencedOnlyIfEmitted ==
    bicep.rendered =>
        (IngressRefs # {} => bicep.ingress # <<>>)

\* ---------------------------------------------------------------- C33
\* The detected projects with a supported language.
SupportedProjects ==
    {i \in DOMAIN detectServices :
        detectServices[i].language \in SupportedLanguages}

\* C33: prjConfigFromDetect yields one service entry per detected project
\* with a supported language: every such project is the relativePath of an
\* entry, stored under the base name of its path (the project's name for
\* the root), there are as many entries as supported projects, and no entry
\* belongs to a project with an unsupported language.
C33_OneServicePerSupportedProject ==
    config.made =>
        /\ \A i \in SupportedProjects :
              /\ ServiceName(detectServices[i].path) \in DOMAIN config.services
              /\ \E n \in DOMAIN config.services :
                    config.services[n].relativePath = detectServices[i].path
        /\ Cardinality(DOMAIN config.services) = Cardinality(SupportedProjects)
        /\ \A n \in DOMAIN config.services :
              \E i \in SupportedProjects :
                    config.services[n].relativePath = detectServices[i].path

\* ---------------------------------------------------------------- C34
\* C34: the spinner of a generation step is stopped with the result of the
\* step: StepFailed when the step returned an error, StepDone only when it
\* returned nil.
C34_SpinnerStoppedWithStepResult ==
    \A i \in DOMAIN stops :
        stops[i].format = GetStepResultFormat(stops[i].result)

\* ---------------------------------------------------------------- C37
\* C37: a prompt never leaves the spinner paused. While Prompt, Select,
\* MultiSelect or Confirm waits for the user the spinner is paused if it
\* was running at the call and is as it was otherwise; when the prompt
\* returns, with an answer or with an error, the spinner is again as it was
\* at the call.
C37_PromptRestoresSpinner ==
    [][ /\ interaction'.active =>
              spinnerStatus' = IF interaction'.before = "running"
                               THEN "paused"
                               ELSE interaction'.before
        /\ (interaction.active /\ ~interaction'.active) =>
              spinnerStatus' = interaction.before
      ]_vars

\* Confirm was called with the spinner running and returned an error (no
\* byte was tracked for it): the spinner is running again.
C37_Witness ==
    /\ lastOp.name = "Confirm"
    /\ ~interaction.active
    /\ spinnerStatus = "running"
    /\ last2Byte = <<"zero", "zero">>

\* ---------------------------------------------------------------- C38
\* C38: while the spinner is running spinnerCurrentTitle is the title of
\* the last ShowSpinner call, and a resize makes the spinner's line from
\* that title.
C38_TitleKeptWhileRunning ==
    [][ /\ spinnerStatus' = "running" => spinnerCurrentTitle' = shownTitle'
        /\ (spinnerStatus = "running" /\ lineTitle' # lineTitle) =>
              lineTitle' = shownTitle'
      ]_vars

\* ---------------------------------------------------------------- C39
\* C39: EnsureBlankLine leaves the tracked last two bytes both newline,
\* writes nothing when they already were, and writes nothing when it is
\* called twice in a row.
C39_EnsureBlankLineIdempotent ==
    [][ (lastOp'.name = "EnsureBlankLine" /\ lastOp'.tick # lastOp.tick) =>
          /\ last2Byte' = <<"nl", "nl">>
          /\ last2Byte = <<"nl", "nl">> => out' = <<>>
          /\ lastOp.name = "EnsureBlankLine" => out' = <<>>
      ]_vars

\* EnsureBlankLine after a message that ended a line: one newline was
\* written and two are tracked.
C39_Witness ==
    /\ lastOp.name = "EnsureBlankLine"
    /\ out = <<"nl">>
    /\ last2Byte = <<"nl", "nl">>

\* ---------------------------------------------------------------- C36
\* A StopPreviewer is between its first and its last statement.
Stopping == \E g \in Goroutines : ppc[g].op = "StopPreviewer"

\* C36: swapping the progress renderer is atomic. Under every interleaving
\* of ShowSpinner, ShowPreviewer and StopPreviewer no method is called on a
\* nil previewer, and, no StopPreviewer being under way, the writer of the
\* console is the default writer or a previewer that is there and has not
\* been stopped.
C36_ProgressSwapAtomic ==
    /\ nilCalls = {}
    /\ (writer # DefaultWriter /\ ~Stopping) =>
          (writer[1] # NoPreviewer /\ writer[1] \notin stoppedLogs)

\* ---------------------------------------------------------------- C40
\* C40: a failed start is retried. When start returns an error the started
\* flag is false, so that the next call starts OneAuth again; and start
\* returns nil only while OneAuth is started.
C40_FailedStartRetried ==
    [][ starts' = starts + 1 =>
          /\ startRet'.ret = "err" => ~started'
          /\ startRet'.ret = "nil" => running'
      ]_vars

====
